---------------------------- MODULE Spec2Model ----------------------------
(***************************************************************************)
(* State-machine model of the FinPol compliance dashboard front end:       *)
(* the Bulk Reports page, the axios client and its response interceptor,   *)
(* the TransactionDetail and Compliance pages, the Transactions page, the  *)
(* two transaction forms, getDashboardStats / Dashboard and RiskBadge.     *)
(*                                                                         *)
(* Conventions                                                             *)
(*  - A JavaScript string that the code inspects character by character    *)
(*    (file names, risk levels, the text of the amount input) is a         *)
(*    sequence of one-character strings.                                   *)
(*  - An optional value (null / undefined) is a sequence of length 0 or 1: *)
(*    None is <<>>, Some(v) is <<v>>.                                      *)
(*  - toasts holds the notifications emitted by the last step only.        *)
(*  - Every page has its own specification; the variables of the other     *)
(*    pages keep their initial value in it.                                *)
(***************************************************************************)
EXTENDS Integers, Sequences, FiniteSets, TLC

VARIABLES
    toasts,        \* notifications emitted by the last step (sonner toast.*)
    inflight,      \* requests issued through apiClient and not yet settled
    delivered,     \* what apiClient handed to the caller of the request
                   \* settled by the last step, next to what the transport
                   \* produced (None when the last step settled nothing)
    location,      \* the router's current path
    store,         \* the backend's Transaction Store, most recent first
    bulkReports,   \* BulkReports state: file, uploading, result, downloading
    transactionDetail, \* TransactionDetail: route id, transaction,
                   \* riskResponse, complianceReport, loading, actionLoading,
                   \* and whether the [id, navigate] effect is due to run
    transactionsPage,  \* Transactions: isModalOpen, transactions, loading,
                   \* and whether the mount effect is due to run
    createSeen,    \* history: the page outcome last observed after a create
                   \* that failed, per backend failure kind
    transactionForm,   \* TransactionForm (named export): loading, riskScore,
                   \* formData
    legacyForm,    \* TransactionForm (default export): formData
    submitted,     \* the data a form passed to onSubmit in the last step
    dashboard,     \* Dashboard: stats, transactions, loading, refreshing,
                   \* and whether the mount effect is due to run
    fetches,       \* the fetchData calls of Dashboard that have not finished:
                   \* the two promises of its Promise.all
    statsResolved, \* the stats getDashboardStats resolved with in the last
                   \* step, next to the list it fetched
    riskBadge,     \* RiskBadge: the score prop and what was rendered for it
    timers,        \* the setTimeout callbacks of TransactionDetail that have
                   \* not fired yet
    compliance,    \* Compliance: search term, regulations, loading, searching,
                   \* generating, the transaction id typed for a report, and
                   \* whether the mount effect is due to run
    scoreCell,     \* the risk score cell of a table row: the risk_score of
                   \* the row and the class rendered for it by each table
    history        \* the browser's session history below the current entry

vars == <<toasts, inflight, delivered, location, store, bulkReports,
          transactionDetail, transactionsPage, createSeen, transactionForm,
          legacyForm, submitted, dashboard, fetches, statsResolved, riskBadge,
          timers, compliance, scoreCell, history>>

\* the variables a page does not own
formVars == <<transactionForm, legacyForm, submitted>>

dashboardVars == <<dashboard, fetches, statsResolved>>

outsideBulk == <<delivered, location, store, transactionDetail,
                 transactionsPage, createSeen, formVars, dashboardVars,
                 riskBadge, timers,
                 compliance, scoreCell, history>>

outsideApi == <<location, store, bulkReports, transactionDetail,
                transactionsPage, createSeen, formVars, dashboardVars,
                riskBadge, timers,
                compliance, scoreCell, history>>

outsideDetail == <<store, bulkReports, transactionsPage, createSeen, formVars,
                   dashboardVars, riskBadge, timers,
                   compliance, scoreCell, history>>

\* the variables the actions of TransactionDetail and the backend behind
\* them leave alone
outsideDetailActions == <<bulkReports, transactionsPage, createSeen, formVars,
                          dashboardVars, riskBadge,
                          compliance, scoreCell, history>>

outsideTransactions == <<bulkReports, transactionDetail, formVars,
                         dashboardVars, riskBadge, timers,
                         compliance, scoreCell, history>>

outsideForm == <<toasts, inflight, delivered, location, store, bulkReports,
                 transactionDetail, transactionsPage, createSeen,
                 dashboardVars, riskBadge, timers,
                 compliance, scoreCell, history>>

outsideDashboard == <<inflight, delivered, location, bulkReports,
                      transactionDetail, transactionsPage, createSeen,
                      formVars, riskBadge, timers,
                      compliance, scoreCell, history>>

outsideCompliance == <<bulkReports, transactionDetail, transactionsPage,
                       createSeen, formVars, dashboardVars, riskBadge,
                       timers, scoreCell, history>>

outsideCell == <<toasts, inflight, delivered, location, store, bulkReports,
                 transactionDetail, transactionsPage, createSeen, formVars,
                 dashboardVars, riskBadge, timers, compliance, history>>

outsideRouter == <<toasts, inflight, delivered, store, bulkReports,
                   transactionDetail, transactionsPage, createSeen, formVars,
                   dashboardVars, riskBadge, timers, compliance, scoreCell>>

outsideBadge == <<toasts, inflight, delivered, location, store, bulkReports,
                  transactionDetail, transactionsPage, createSeen, formVars,
                  dashboardVars, timers,
                  compliance, scoreCell, history>>

-----------------------------------------------------------------------------
(* Optional values *)

None == <<>>

Some(v) == <<v>>

IsSome(o) == o # <<>>

Val(o) == o[1]

-----------------------------------------------------------------------------
(* Bounds of the model *)

\* at most this many requests are in flight at once
MaxInFlight == 2

-----------------------------------------------------------------------------
(* JavaScript string primitives used by the code *)

\* String.prototype.toLowerCase on one character
LowerChar(c) ==
    CASE c = "A" -> "a"
      [] c = "C" -> "c"
      [] c = "D" -> "d"
      [] c = "F" -> "f"
      [] c = "G" -> "g"
      [] c = "H" -> "h"
      [] c = "I" -> "i"
      [] c = "L" -> "l"
      [] c = "M" -> "m"
      [] c = "O" -> "o"
      [] c = "P" -> "p"
      [] c = "R" -> "r"
      [] c = "S" -> "s"
      [] c = "T" -> "t"
      [] c = "U" -> "u"
      [] c = "V" -> "v"
      [] c = "W" -> "w"
      [] c = "X" -> "x"
      [] OTHER -> c

\* String.prototype.toLowerCase
ToLowerCase(s) == [i \in 1..Len(s) |-> LowerChar(s[i])]

\* String.prototype.split(sep) for a one-character separator: the segments
\* between the separators, always at least one (possibly empty) segment
RECURSIVE Split(_, _)
Split(s, sep) ==
    IF \A i \in 1..Len(s) : s[i] # sep
    THEN <<s>>
    ELSE LET k == CHOOSE i \in 1..Len(s) :
                      s[i] = sep /\ \A j \in 1..(i - 1) : s[j] # sep
         IN  <<SubSeq(s, 1, k - 1)>> \o Split(SubSeq(s, k + 1, Len(s)), sep)

\* Array.prototype.pop: the last element, undefined for an empty array
Pop(arr) == IF Len(arr) = 0 THEN None ELSE Some(arr[Len(arr)])

\* String.prototype.endsWith
EndsWith(s, suffix) ==
    /\ Len(suffix) <= Len(s)
    /\ SubSeq(s, Len(s) - Len(suffix) + 1, Len(s)) = suffix

-----------------------------------------------------------------------------
(* Notifications (sonner) *)

\* a message is the sequence of its parts: a literal, then interpolated text
Toast(level, message) == [level |-> level, message |-> message]

ErrorToast(message) == Toast("error", message)

SuccessToast(message) == Toast("success", message)

-----------------------------------------------------------------------------
(* apiClient: axios instance with a response interceptor *)

\* AxiosError: response is absent for a network error or a timeout; data is
\* absent (falsy) for an empty body; detail is the FastAPI error detail
AxiosError(response, message) == [response |-> response, message |-> message]

ErrorBody(detail) == [detail |-> detail]

ErrorResponse(status, data) == [status |-> status, data |-> data]

\* the ways a request can fail: error response with a detail, error response
\* whose body has no detail, error response with an empty body, and no
\* response at all (apiClient timeout 30000; a network error has the same
\* shape with another message)
Failures == {
    AxiosError(Some(ErrorResponse(400, Some(ErrorBody(Some("Bad request"))))),
               "Request failed with status code 400"),
    AxiosError(Some(ErrorResponse(422, Some(ErrorBody(None)))),
               "Request failed with status code 422"),
    AxiosError(Some(ErrorResponse(500, None)),
               "Request failed with status code 500"),
    AxiosError(None, "timeout of 30000ms exceeded") }

\* JSON.stringify of an error body
JSONStringify(data) ==
    IF IsSome(data.detail) THEN <<"{\"detail\":\"", Val(data.detail), "\"}">>
    ELSE <<"{}">>

\* error.response?.data (undefined when there is no response)
ResponseData(error) ==
    IF IsSome(error.response) THEN Val(error.response).data ELSE None

\* error.response?.data?.detail
ResponseDetail(error) ==
    IF IsSome(ResponseData(error)) THEN Val(ResponseData(error)).detail ELSE None

\* what the transport hands to the interceptors
Fulfilled(value) == [settled |-> "fulfilled", value |-> Some(value), reason |-> None]

Rejected(error) == [settled |-> "rejected", value |-> None, reason |-> Some(error)]

\* a response interceptor whose error handler returns the error instead of
\* rejecting with it
ResponseInterceptorSwallows(outcome) ==
    IF outcome.settled = "fulfilled"
    THEN [result |-> outcome, toasts |-> <<>>]
    ELSE LET error == Val(outcome.reason)
             message == IF IsSome(ResponseData(error))
                        THEN JSONStringify(Val(ResponseData(error)))
                        ELSE <<error.message>>
         IN  [result |-> Fulfilled(error),
              toasts |-> <<ErrorToast(<<"API Error: ">> \o message)>>]

\* the response interceptor: (response) => response on success; on error it
\* toasts `API Error: ${message}` and returns Promise.reject(error)
ResponseInterceptor(outcome) ==
    IF outcome.settled = "fulfilled"
    THEN [result |-> outcome, toasts |-> <<>>]
    ELSE LET error == Val(outcome.reason)
             message == IF IsSome(ResponseData(error))
                        THEN JSONStringify(Val(ResponseData(error)))
                        ELSE <<error.message>>
         IN  [result |-> Rejected(error),
              toasts |-> <<ErrorToast(<<"API Error: ">> \o message)>>]

\* a pending request issued through apiClient
Request(op, arg) == [op |-> op, arg |-> arg]

\* the sequence s without its i-th element
RemoveAt(s, i) == SubSeq(s, 1, i - 1) \o SubSeq(s, i + 1, Len(s))

-----------------------------------------------------------------------------
(* apiClient on its own: any caller, any endpoint *)

\* the endpoints of transactionApi and complianceApi
ApiOps == { "create", "getAll", "getById", "analyze", "delete",
            "getRegulations", "searchRegulations", "generateReport",
            "uploadFile", "uploadFileWithReport" }

ApiInit == delivered = None

\* apiClient.get / post / delete: the request goes out
apiRequest(op) ==
    /\ Len(inflight) < MaxInFlight
    /\ inflight' = Append(inflight, Request(op, "body"))
    /\ toasts' = <<>>
    /\ delivered' = None
    /\ UNCHANGED outsideApi

\* the transport settles request i with outcome; the response interceptor
\* runs and its result is what the caller's await sees
apiSettle(i, outcome) ==
    LET r == ResponseInterceptor(outcome)
    IN  /\ inflight' = RemoveAt(inflight, i)
        /\ delivered' = Some([request |-> inflight[i], outcome |-> outcome,
                              result |-> r.result])
        /\ toasts' = r.toasts
        /\ UNCHANGED outsideApi

ApiRequest == \E op \in ApiOps : apiRequest(op)

ApiFulfil == \E i \in 1..Len(inflight) : apiSettle(i, Fulfilled("data"))

ApiFail ==
    \E i \in 1..Len(inflight) : \E error \in Failures :
        apiSettle(i, Rejected(error))

-----------------------------------------------------------------------------
(* BulkReports page *)

\* 10 * 1024 * 1024 in handleFileChange
MaxFileSize == 10 * 1024 * 1024

\* const allowedTypes = ['.csv', '.xlsx', '.xls', '.pdf']
allowedTypes == { <<".", "c", "s", "v">>, <<".", "x", "l", "s", "x">>,
                  <<".", "x", "l", "s">>, <<".", "p", "d", "f">> }

\* file names a user can pick (the accept attribute of the input only
\* pre-filters the picker; any file of the disk can be chosen)
FileNames == {
    <<"A", ".", "C", "S", "V">>,
    <<"b", ".", "x", "l", "s", "x">>,
    <<"b", ".", "x", "l", "s">>,
    <<"r", ".", "P", "d", "f">>,
    <<"a", ".", "t", "x", "t">>,
    <<"a", ".", "c", "s", "v", ".", "e", "x", "e">>,
    <<"a", ".">>,
    <<"a", "c", "s", "v">>,
    <<"c", "s", "v">> }

FileSizes == { 1, MaxFileSize, MaxFileSize + 1 }

File(name, size) == [name |-> name, size |-> size]

Files == { File(n, s) : n \in FileNames, s \in FileSizes }

\* selectedFile.name.toLowerCase().split('.').pop()
FileExt(name) == Pop(Split(ToLowerCase(name), "."))

\* !fileExt || !allowedTypes.includes(`.${fileExt}`)
InvalidFileType(name) ==
    LET fileExt == FileExt(name)
    IN  \/ ~IsSome(fileExt)
        \/ Val(fileExt) = <<>>
        \/ (<<".">> \o Val(fileExt)) \notin allowedTypes

\* selectedFile.size > 10 * 1024 * 1024
FileTooLarge(size) == size > MaxFileSize

InvalidTypeToast ==
    ErrorToast(<<"Invalid file type. Please upload CSV, Excel, or PDF files.">>)

TooLargeToast == ErrorToast(<<"File too large. Maximum size is 10MB.">>)

\* summaries the upload endpoint can answer with (the page only stores and
\* renders them); filename echoes the uploaded file
UploadResponses(file) ==
    { [filename |-> file.name, total_transactions |-> n] : n \in {0, 3} }

BulkReportsInit ==
    bulkReports = [file |-> None, uploading |-> FALSE,
                   result |-> None, downloading |-> FALSE]

\* handleFileChange with the size check moved after setFile / setResult
handleFileChangeStoresBeforeSizeCheck(selected) ==
    IF ~IsSome(selected)
    THEN /\ toasts' = <<>>
         /\ UNCHANGED <<bulkReports, inflight, outsideBulk>>
    ELSE LET selectedFile == Val(selected)
         IN  IF InvalidFileType(selectedFile.name)
             THEN /\ toasts' = <<InvalidTypeToast>>
                  /\ UNCHANGED <<bulkReports, inflight, outsideBulk>>
             ELSE /\ bulkReports' = [bulkReports EXCEPT !.file = Some(selectedFile),
                                                        !.result = None]
                  /\ toasts' = IF FileTooLarge(selectedFile.size)
                               THEN <<TooLargeToast>> ELSE <<>>
                  /\ UNCHANGED <<inflight, outsideBulk>>

\* handleFileChange: e.target.files?.[0] is undefined when the picker is
\* cancelled
handleFileChange(selected) ==
    IF ~IsSome(selected)
    THEN /\ toasts' = <<>>
         /\ UNCHANGED <<bulkReports, inflight, outsideBulk>>
    ELSE LET selectedFile == Val(selected)
         IN  IF InvalidFileType(selectedFile.name)
             THEN /\ toasts' = <<InvalidTypeToast>>
                  /\ UNCHANGED <<bulkReports, inflight, outsideBulk>>
             ELSE IF FileTooLarge(selectedFile.size)
             THEN /\ toasts' = <<TooLargeToast>>
                  /\ UNCHANGED <<bulkReports, inflight, outsideBulk>>
             ELSE /\ bulkReports' = [bulkReports EXCEPT !.file = Some(selectedFile),
                                                        !.result = None]
                  /\ toasts' = <<>>
                  /\ UNCHANGED <<inflight, outsideBulk>>

HandleFileChange == \E selected \in {None} \cup { Some(f) : f \in Files } :
                        handleFileChange(selected)

\* handleUpload behind a button that is disabled={!file} only
handleUploadWhileUploading ==
    /\ IsSome(bulkReports.file)
    /\ Len(inflight) < MaxInFlight
    /\ bulkReports' = [bulkReports EXCEPT !.uploading = TRUE]
    /\ inflight' = Append(inflight, Request("uploadFile", Val(bulkReports.file)))
    /\ toasts' = <<>>
    /\ UNCHANGED outsideBulk

\* handleUpload up to its await; the button is disabled={!file || uploading}
handleUpload ==
    /\ IsSome(bulkReports.file) /\ ~bulkReports.uploading
    /\ Len(inflight) < MaxInFlight
    /\ bulkReports' = [bulkReports EXCEPT !.uploading = TRUE]
    /\ inflight' = Append(inflight, Request("uploadFile", Val(bulkReports.file)))
    /\ toasts' = <<>>
    /\ UNCHANGED outsideBulk

\* handleUpload after the await, request fulfilled
handleUploadFulfilled(i, response) ==
    LET r == ResponseInterceptor(Fulfilled(response))
    IN  /\ r.result.settled = "fulfilled"
        /\ bulkReports' = [bulkReports EXCEPT !.result = r.result.value,
                                               !.uploading = FALSE]
        /\ toasts' = r.toasts \o
               <<SuccessToast(<<"Successfully processed ",
                                ToString(Val(r.result.value).total_transactions),
                                " transactions!">>)>>
        /\ inflight' = RemoveAt(inflight, i)
        /\ UNCHANGED outsideBulk

\* handleUpload after the await, request rejected: catch, then finally
handleUploadRejected(i, error) ==
    LET r == ResponseInterceptor(Rejected(error))
    IN  /\ r.result.settled = "rejected"
        /\ bulkReports' = [bulkReports EXCEPT !.uploading = FALSE]
        /\ toasts' = r.toasts \o
               <<ErrorToast(IF IsSome(ResponseDetail(Val(r.result.reason)))
                            THEN <<Val(ResponseDetail(Val(r.result.reason)))>>
                            ELSE <<"Failed to process file">>)>>
        /\ inflight' = RemoveAt(inflight, i)
        /\ UNCHANGED outsideBulk

UploadFulfilled ==
    \E i \in 1..Len(inflight) :
        /\ inflight[i].op = "uploadFile"
        /\ \E response \in UploadResponses(inflight[i].arg) :
               handleUploadFulfilled(i, response)

UploadRejected ==
    \E i \in 1..Len(inflight) :
        /\ inflight[i].op = "uploadFile"
        /\ \E error \in Failures : handleUploadRejected(i, error)

\* handleDownloadReport up to its await.  Two buttons start it: the icon
\* button (disabled={!file || downloading}) and, when a result is shown,
\* "Download Full PDF Report" (disabled={downloading}); the handler itself
\* returns at once when no file is selected
handleDownloadReport ==
    /\ ~bulkReports.downloading
    /\ IsSome(bulkReports.file) \/ IsSome(bulkReports.result)
    /\ IF ~IsSome(bulkReports.file)
       THEN /\ toasts' = <<>>
            /\ UNCHANGED <<bulkReports, inflight, outsideBulk>>
       ELSE /\ Len(inflight) < MaxInFlight
            /\ bulkReports' = [bulkReports EXCEPT !.downloading = TRUE]
            /\ inflight' = Append(inflight,
                     Request("uploadFileWithReport", Val(bulkReports.file)))
            /\ toasts' = <<>>
            /\ UNCHANGED outsideBulk

\* handleDownloadReport after the await, blob received and saved
handleDownloadFulfilled(i) ==
    LET r == ResponseInterceptor(Fulfilled("blob"))
    IN  /\ r.result.settled = "fulfilled"
        /\ bulkReports' = [bulkReports EXCEPT !.downloading = FALSE]
        /\ toasts' = r.toasts \o
               <<SuccessToast(<<"PDF report downloaded successfully!">>)>>
        /\ inflight' = RemoveAt(inflight, i)
        /\ UNCHANGED outsideBulk

\* handleDownloadReport after the await, request rejected
handleDownloadRejected(i, error) ==
    LET r == ResponseInterceptor(Rejected(error))
    IN  /\ r.result.settled = "rejected"
        /\ bulkReports' = [bulkReports EXCEPT !.downloading = FALSE]
        /\ toasts' = r.toasts \o
               <<ErrorToast(IF IsSome(ResponseDetail(Val(r.result.reason)))
                            THEN <<Val(ResponseDetail(Val(r.result.reason)))>>
                            ELSE <<"Failed to download report">>)>>
        /\ inflight' = RemoveAt(inflight, i)
        /\ UNCHANGED outsideBulk

DownloadFulfilled ==
    \E i \in 1..Len(inflight) :
        /\ inflight[i].op = "uploadFileWithReport"
        /\ handleDownloadFulfilled(i)

DownloadRejected ==
    \E i \in 1..Len(inflight) :
        /\ inflight[i].op = "uploadFileWithReport"
        /\ \E error \in Failures : handleDownloadRejected(i, error)

\* clearFile, from the Remove button shown while a file is selected
clearFile ==
    /\ IsSome(bulkReports.file)
    /\ bulkReports' = [bulkReports EXCEPT !.file = None, !.result = None]
    /\ toasts' = <<>>
    /\ UNCHANGED <<inflight, outsideBulk>>

-----------------------------------------------------------------------------
(* Transactions as the pages see them *)

\* risk levels as the backend spells them
sLow == <<"L", "o", "w">>

sMedium == <<"M", "e", "d", "i", "u", "m">>

sHigh == <<"H", "i", "g", "h">>

sCritical == <<"C", "r", "i", "t", "i", "c", "a", "l">>

\* interface Transaction: the attributes given at creation (amount and
\* device_risk_score in hundredths), then risk_score?: number and
\* risk_level?: string
Transaction(id, risk_score, risk_level) ==
    [id |-> id, user_id |-> "USR-1", amount |-> 2000, currency |-> "USD",
     transaction_type |-> "transfer", description |-> <<"rent">>,
     recipient_account |-> "ACC-2", sender_account |-> "ACC-1",
     country |-> "US", merchant_type |-> "retail", device_risk_score |-> 20,
     risk_score |-> risk_score, risk_level |-> risk_level]

\* the risk fields a stored transaction can carry: unscored, scored in each
\* band (0 is a score), and the two half-populated shapes
RiskFields == {
    <<None, None>>,
    <<Some(0), Some(sLow)>>,
    <<Some(60), Some(sMedium)>>,
    <<Some(95), Some(sCritical)>>,
    <<Some(85), None>>,
    <<None, Some(sHigh)>> }

TransactionIds == { "TXN-1", "TXN-2" }

\* what GET /transactions/{id} can answer for id
StoredTransactions(id) == { Transaction(id, rf[1], rf[2]) : rf \in RiskFields }

\* interface ComplianceReport, as far as the page reads it
ComplianceReport(transaction_id, llm_analysis, recommendations) ==
    [transaction_id |-> transaction_id, llm_analysis |-> llm_analysis,
     recommendations |-> recommendations]

\* what POST /compliance/report/{id} can answer: with or without narrative
GeneratedReports(id) ==
    { ComplianceReport(id, "analysis", <<"file a SAR">>),
      ComplianceReport(id, "", <<>>) }

-----------------------------------------------------------------------------
(* TransactionDetail page *)

DetailPath(id) == <<"/transactions/", id>>

\* the useState initial values; the [id, navigate] effect is due when the
\* page is the routed element.  reportFor is history: the arguments of the
\* generateReport call whose answer complianceReport holds
TransactionDetailInit(id, routed) ==
    transactionDetail = [id |-> id, transaction |-> None,
                         riskResponse |-> None, complianceReport |-> None,
                         reportFor |-> None,
                         loading |-> TRUE, actionLoading |-> None,
                         effectDue |-> routed]

\* the page is the routed element: state updates of an unmounted page are
\* dropped
DetailMounted == location = DetailPath(transactionDetail.id)

\* the request was issued by the effect run for this page
IssuedByDetail(req) == req.op \in {"getById", "generateReport"}

\* the router moves to the detail page of another transaction: same
\* component instance, new id, the effect is due again
routeToTransaction(id) ==
    /\ DetailMounted
    /\ id # transactionDetail.id
    /\ location' = DetailPath(id)
    /\ transactionDetail' = [transactionDetail EXCEPT !.id = id,
                                                      !.effectDue = TRUE]
    /\ toasts' = <<>>
    /\ delivered' = None
    /\ UNCHANGED <<inflight, outsideDetail>>

RouteToTransaction == \E id \in TransactionIds : routeToTransaction(id)

\* useEffect body up to the first await: setLoading(true), getById(id)
fetchTransaction ==
    /\ DetailMounted
    /\ transactionDetail.effectDue
    /\ Len(inflight) < MaxInFlight
    /\ transactionDetail' = [transactionDetail EXCEPT !.loading = TRUE,
                                                      !.effectDue = FALSE]
    /\ inflight' = Append(inflight,
                          Request("getById", [id |-> transactionDetail.id]))
    /\ toasts' = <<>>
    /\ delivered' = None
    /\ UNCHANGED <<location, outsideDetail>>

\* a report is wanted only for a score that counts when it is truthy
WantsReportTruthyScore(txn) ==
    /\ IsSome(txn.risk_score) /\ Val(txn.risk_score) # 0
    /\ IsSome(txn.risk_level) /\ Val(txn.risk_level) # <<>>

\* txn.risk_score !== undefined && txn.risk_level
WantsReport(txn) ==
    /\ IsSome(txn.risk_score)
    /\ IsSome(txn.risk_level) /\ Val(txn.risk_level) # <<>>

\* state updates reach the page only while it is mounted
DetailSet(next) == IF DetailMounted THEN next ELSE transactionDetail

\* getById resolved: setTransaction(txn); with risk_score !== undefined and a
\* truthy risk_level the report is requested, otherwise finally runs
fetchTransactionFulfilled(i, txn) ==
    LET r == ResponseInterceptor(Fulfilled(txn))
        wantsReport == WantsReport(txn)
    IN  /\ r.result.settled = "fulfilled"
        /\ delivered' = Some([request |-> inflight[i],
                              outcome |-> Fulfilled(txn), result |-> r.result])
        /\ toasts' = r.toasts
        /\ IF wantsReport
           THEN /\ transactionDetail' =
                       DetailSet([transactionDetail EXCEPT
                                      !.transaction = r.result.value])
                /\ inflight' = Append(RemoveAt(inflight, i),
                       Request("generateReport",
                               [id |-> inflight[i].arg.id,
                                risk_score |-> Val(txn.risk_score),
                                risk_level |-> Val(txn.risk_level)]))
           ELSE /\ transactionDetail' =
                       DetailSet([transactionDetail EXCEPT
                                      !.transaction = r.result.value,
                                      !.loading = FALSE])
                /\ inflight' = RemoveAt(inflight, i)
        /\ UNCHANGED <<location, outsideDetail>>

\* getById rejected: toast.error('Transaction not found'),
\* navigate('/transactions'), finally setLoading(false)
fetchTransactionRejected(i, error) ==
    LET r == ResponseInterceptor(Rejected(error))
    IN  /\ r.result.settled = "rejected"
        /\ inflight' = RemoveAt(inflight, i)
        /\ delivered' = Some([request |-> inflight[i],
                              outcome |-> Rejected(error), result |-> r.result])
        /\ toasts' = r.toasts \o <<ErrorToast(<<"Transaction not found">>)>>
        /\ location' = <<"/transactions">>
        /\ transactionDetail' =
               DetailSet([transactionDetail EXCEPT !.loading = FALSE])
        /\ UNCHANGED outsideDetail

\* generateReport resolved: setComplianceReport(report), finally
generateReportFulfilled(i, report) ==
    LET r == ResponseInterceptor(Fulfilled(report))
    IN  /\ r.result.settled = "fulfilled"
        /\ inflight' = RemoveAt(inflight, i)
        /\ delivered' = Some([request |-> inflight[i],
                              outcome |-> Fulfilled(report), result |-> r.result])
        /\ toasts' = r.toasts
        /\ transactionDetail' =
               DetailSet([transactionDetail EXCEPT
                              !.complianceReport = r.result.value,
                              !.reportFor = Some(inflight[i].arg),
                              !.loading = FALSE])
        /\ UNCHANGED <<location, outsideDetail>>

\* generateReport rejected: the inner catch only logs to the console, then
\* finally setLoading(false)
generateReportRejected(i, error) ==
    LET r == ResponseInterceptor(Rejected(error))
    IN  /\ r.result.settled = "rejected"
        /\ inflight' = RemoveAt(inflight, i)
        /\ delivered' = Some([request |-> inflight[i],
                              outcome |-> Rejected(error), result |-> r.result])
        /\ toasts' = r.toasts
        /\ transactionDetail' =
               DetailSet([transactionDetail EXCEPT !.loading = FALSE])
        /\ UNCHANGED <<location, outsideDetail>>

FetchTransactionFulfilled ==
    \E i \in 1..Len(inflight) :
        /\ inflight[i].op = "getById"
        /\ \E txn \in StoredTransactions(inflight[i].arg.id) :
               fetchTransactionFulfilled(i, txn)

FetchTransactionRejected ==
    \E i \in 1..Len(inflight) :
        /\ inflight[i].op = "getById"
        /\ \E error \in Failures : fetchTransactionRejected(i, error)

GenerateReportFulfilled ==
    \E i \in 1..Len(inflight) :
        /\ inflight[i].op = "generateReport"
        /\ \E report \in GeneratedReports(inflight[i].arg.id) :
               generateReportFulfilled(i, report)

GenerateReportRejected ==
    \E i \in 1..Len(inflight) :
        /\ inflight[i].op = "generateReport"
        /\ \E error \in Failures : generateReportRejected(i, error)

\* what the "AI Compliance Analysis" card shows: the report's narrative when
\* there is one, else the explanation of the last re-analysis, else the
\* "is being processed" text
AnalysisCard ==
    LET td == transactionDetail
    IN  IF IsSome(td.complianceReport) /\ Val(td.complianceReport).llm_analysis # ""
        THEN [shows |-> "report", text |-> Val(td.complianceReport).llm_analysis]
        ELSE IF IsSome(td.riskResponse)
                   /\ Val(td.riskResponse).compliance_explanation # ""
        THEN [shows |-> "explanation",
              text |-> Val(td.riskResponse).compliance_explanation]
        ELSE [shows |-> "processing",
              text |-> "Compliance analysis is being processed."]

-----------------------------------------------------------------------------
(* JavaScript numbers, in hundredths, and parseFloat *)

\* a number is NaN or a value counted in hundredths (step="0.01")
NaN == [nan |-> TRUE, hundredths |-> 0]

Num(h) == [nan |-> FALSE, hundredths |-> h]

Digits == <<"0", "1", "2", "3", "4", "5", "6", "7", "8", "9">>

IsDigit(c) == \E d \in 1..10 : Digits[d] = c

DigitValue(c) == (CHOOSE d \in 1..10 : Digits[d] = c) - 1

\* the length of the longest prefix of s made of digits
RECURSIVE DigitRun(_)
DigitRun(s) ==
    IF Len(s) = 0 \/ ~IsDigit(s[1]) THEN 0 ELSE 1 + DigitRun(Tail(s))

\* the decimal value of a sequence of digits
RECURSIVE DecimalValue(_)
DecimalValue(s) ==
    IF Len(s) = 0 THEN 0
    ELSE 10 * DecimalValue(SubSeq(s, 1, Len(s) - 1)) + DigitValue(s[Len(s)])

\* parseFloat: optional sign, digits, optional fraction; the longest prefix
\* that is a number, NaN when there is none
ParseFloat(text) ==
    LET negative == Len(text) > 0 /\ text[1] = "-"
        body == IF Len(text) > 0 /\ text[1] \in {"-", "+"} THEN Tail(text) ELSE text
        n == DigitRun(body)
        rest == SubSeq(body, n + 1, Len(body))
        fraction == IF Len(rest) > 0 /\ rest[1] = "."
                    THEN SubSeq(rest, 2, 1 + DigitRun(Tail(rest))) ELSE <<>>
        two == SubSeq(fraction \o <<"0", "0">>, 1, 2)
        magnitude == 100 * DecimalValue(SubSeq(body, 1, n)) + DecimalValue(two)
    IN  IF n = 0 /\ Len(fraction) = 0 THEN NaN
        ELSE Num(IF negative THEN 0 - magnitude ELSE magnitude)

\* interface TransactionCreate
TransactionCreate(user_id, amount, currency, transaction_type, description, sender_account, recipient_account, country, merchant_type, device_risk_score) ==
    [user_id |-> user_id, amount |-> amount, currency |-> currency,
     transaction_type |-> transaction_type, description |-> description,
     sender_account |-> sender_account, recipient_account |-> recipient_account,
     country |-> country, merchant_type |-> merchant_type,
     device_risk_score |-> device_risk_score]

-----------------------------------------------------------------------------
(* The backend behind POST /transactions, as section 4.1 states it *)

\* the store holds at most this many transactions
MaxStore == 2

\* the Risk Evaluator's level for a score: the approval-policy bands
LevelOfScore(score) ==
    IF score < 50 THEN sLow
    ELSE IF score < 80 THEN sMedium
    ELSE IF score < 90 THEN sHigh
    ELSE sCritical

\* scores the Risk Evaluator can return
EvaluatorScores == { 5, 60, 85, 95 }

\* identifier assigned at creation
NewId(st) == "TXN-" \o ToString(Len(st) + 1)

\* what the form hands to handleCreateTransaction: a valid input and one
\* with a negative amount
CreateInputs == {
    TransactionCreate("USR-1", Num(2000), "USD", "transfer", None, "ACC-1",
                      "ACC-2", "US", "retail", Num(20)),
    TransactionCreate("USR-1", Num(-500), "USD", "transfer", None, "ACC-1",
                      "ACC-2", "US", "retail", Num(20)) }

\* the constraints of create: amount >= 0, device risk score in [0,1]
ValidInput(data) ==
    /\ ~data.amount.nan /\ data.amount.hundredths >= 0
    /\ ~data.device_risk_score.nan
    /\ data.device_risk_score.hundredths >= 0
    /\ data.device_risk_score.hundredths <= 100

\* create: ValidationError before persistence when a constraint is violated;
\* otherwise the record is persisted, with the risk fields when the Risk
\* Evaluator answers and without them (degraded write, EvaluatorUnavailable)
\* when it does not.  Each case is the new store and the HTTP outcome.
CreateCases(st, data) ==
    IF ~ValidInput(data)
    THEN { [kind |-> "ValidationError", store |-> st,
            outcome |-> Rejected(AxiosError(
                Some(ErrorResponse(422, Some(ErrorBody(Some("ValidationError"))))),
                "Request failed with status code 422"))] }
    ELSE { [kind |-> "Created",
            store |-> <<Transaction(NewId(st), Some(sc), Some(LevelOfScore(sc)))>> \o st,
            outcome |-> Fulfilled(
                Transaction(NewId(st), Some(sc), Some(LevelOfScore(sc))))]
           : sc \in EvaluatorScores }
         \cup
         { [kind |-> "EvaluatorUnavailable",
            store |-> <<Transaction(NewId(st), None, None)>> \o st,
            outcome |-> Rejected(AxiosError(
                Some(ErrorResponse(503, Some(ErrorBody(Some("EvaluatorUnavailable"))))),
                "Request failed with status code 503"))] }

-----------------------------------------------------------------------------
(* Transactions page *)

TransactionsPath == <<"/transactions">>

\* the useState initial values; the mount effect is due when the page is
\* the routed element
TransactionsInit(routed) ==
    /\ transactionsPage = [isModalOpen |-> FALSE, transactions |-> <<>>,
                           loading |-> TRUE, effectDue |-> routed]
    /\ createSeen = [EvaluatorUnavailable |-> None, ValidationError |-> None]

TransactionsMounted == location = TransactionsPath

\* state updates reach the page only while it is mounted
TransactionsSet(next) == IF TransactionsMounted THEN next ELSE transactionsPage

\* fetchTransactions up to its await, from the mount effect or from the
\* Refresh button (rendered once loading is false)
fetchTransactions ==
    /\ TransactionsMounted
    /\ transactionsPage.effectDue \/ ~transactionsPage.loading
    /\ Len(inflight) < MaxInFlight
    /\ transactionsPage' = [transactionsPage EXCEPT !.loading = TRUE,
                                                    !.effectDue = FALSE]
    /\ inflight' = Append(inflight,
                          Request("getAll", [limit |-> 100, offset |-> 0]))
    /\ toasts' = <<>>
    /\ delivered' = None
    /\ UNCHANGED <<location, store, createSeen, outsideTransactions>>

\* GET /transactions?limit&offset: the window of the store, most recent first
ListWindow(st, limit, offset) ==
    SubSeq(st, offset + 1, IF Len(st) < offset + limit THEN Len(st)
                           ELSE offset + limit)

\* fetchTransactions after the await: setTransactions(data), finally
fetchTransactionsFulfilled(i, data) ==
    LET r == ResponseInterceptor(Fulfilled(data))
    IN  /\ r.result.settled = "fulfilled"
        /\ inflight' = RemoveAt(inflight, i)
        /\ delivered' = Some([request |-> inflight[i],
                              outcome |-> Fulfilled(data), result |-> r.result])
        /\ toasts' = r.toasts
        /\ transactionsPage' =
               TransactionsSet([transactionsPage EXCEPT
                                    !.transactions = Val(r.result.value),
                                    !.loading = FALSE])
        /\ UNCHANGED <<location, store, createSeen, outsideTransactions>>

\* fetchTransactions after the await, rejected: catch, then finally
fetchTransactionsRejected(i, error) ==
    LET r == ResponseInterceptor(Rejected(error))
    IN  /\ r.result.settled = "rejected"
        /\ inflight' = RemoveAt(inflight, i)
        /\ delivered' = Some([request |-> inflight[i],
                              outcome |-> Rejected(error), result |-> r.result])
        /\ toasts' = r.toasts \o <<ErrorToast(<<"Failed to load transactions">>)>>
        /\ transactionsPage' =
               TransactionsSet([transactionsPage EXCEPT !.loading = FALSE])
        /\ UNCHANGED <<location, store, createSeen, outsideTransactions>>

FetchTransactionsFulfilled ==
    \E i \in 1..Len(inflight) :
        /\ inflight[i].op = "getAll"
        /\ fetchTransactionsFulfilled(i,
               ListWindow(store, inflight[i].arg.limit, inflight[i].arg.offset))

FetchTransactionsRejected ==
    \E i \in 1..Len(inflight) :
        /\ inflight[i].op = "getAll"
        /\ \E error \in Failures : fetchTransactionsRejected(i, error)

\* the "New Transaction" button
openModal ==
    /\ TransactionsMounted
    /\ ~transactionsPage.loading
    /\ ~transactionsPage.isModalOpen
    /\ transactionsPage' = [transactionsPage EXCEPT !.isModalOpen = TRUE]
    /\ toasts' = <<>>
    /\ delivered' = None
    /\ UNCHANGED <<inflight, location, store, createSeen, outsideTransactions>>

\* handleCreateTransaction up to its await; it is the onSubmit of the form
\* inside the modal
handleCreateTransaction(data) ==
    /\ TransactionsMounted
    /\ ~transactionsPage.loading
    /\ transactionsPage.isModalOpen
    /\ Len(inflight) < MaxInFlight
    /\ inflight' = Append(inflight, Request("create", data))
    /\ toasts' = <<>>
    /\ delivered' = None
    /\ UNCHANGED <<transactionsPage, location, store, createSeen,
                   outsideTransactions>>

HandleCreateTransaction == \E data \in CreateInputs : handleCreateTransaction(data)

\* what the user has before the eyes after a create attempt: the page state,
\* the current route and the message of handleCreateTransaction itself (the
\* last notification of the step)
CreateOutcome(page, path, notifications) ==
    [page |-> page, location |-> path,
     message |-> notifications[Len(notifications)].message]

\* handleCreateTransaction after the await: toast.success,
\* setIsModalOpen(false), fetchTransactions() up to its await, navigate
handleCreateFulfilled(i, case) ==
    LET r == ResponseInterceptor(case.outcome)
    IN  /\ r.result.settled = "fulfilled"
        /\ Len(inflight) <= MaxInFlight
        /\ store' = case.store
        /\ inflight' = Append(RemoveAt(inflight, i),
                              Request("getAll", [limit |-> 100, offset |-> 0]))
        /\ delivered' = Some([request |-> inflight[i],
                              outcome |-> case.outcome, result |-> r.result])
        /\ toasts' = r.toasts \o
               <<SuccessToast(<<"Transaction created successfully!">>)>>
        /\ transactionsPage' =
               TransactionsSet([transactionsPage EXCEPT !.isModalOpen = FALSE,
                                                        !.loading = TRUE])
        /\ location' = <<"/transactions/", Val(r.result.value).id>>
        /\ UNCHANGED <<createSeen, outsideTransactions>>

\* handleCreateTransaction after the await, rejected: the single catch
handleCreateRejected(i, case) ==
    LET r == ResponseInterceptor(case.outcome)
        notifications == r.toasts \o
                             <<ErrorToast(<<"Failed to create transaction">>)>>
    IN  /\ r.result.settled = "rejected"
        /\ store' = case.store
        /\ inflight' = RemoveAt(inflight, i)
        /\ delivered' = Some([request |-> inflight[i],
                              outcome |-> case.outcome, result |-> r.result])
        /\ toasts' = notifications
        /\ createSeen' = [createSeen EXCEPT ![case.kind] =
               Some(CreateOutcome(transactionsPage, location, notifications))]
        /\ UNCHANGED <<transactionsPage, location, outsideTransactions>>

HandleCreateFulfilled ==
    \E i \in 1..Len(inflight) :
        /\ inflight[i].op = "create"
        /\ \E case \in CreateCases(store, inflight[i].arg) :
               /\ Len(case.store) <= MaxStore
               /\ case.kind = "Created"
               /\ handleCreateFulfilled(i, case)

HandleCreateRejected ==
    \E i \in 1..Len(inflight) :
        /\ inflight[i].op = "create"
        /\ \E case \in CreateCases(store, inflight[i].arg) :
               /\ Len(case.store) <= MaxStore
               /\ case.kind # "Created"
               /\ handleCreateRejected(i, case)

-----------------------------------------------------------------------------
(* Reference data (types) *)

\* type TransactionType
TransactionType == { "transfer", "payment", "withdrawal", "deposit" }

\* COUNTRIES (codes)
COUNTRIES == <<"US", "UK", "IN", "DE", "FR", "JP", "CN", "RU", "KP", "IR",
               "SY", "IQ">>

\* MERCHANT_TYPES (values)
MERCHANT_TYPES == <<"retail", "crypto_exchange", "gambling", "gaming",
                    "banking", "investment", "ecommerce", "remittance">>

\* CURRENCIES (codes)
CURRENCIES == <<"USD", "EUR", "GBP", "INR", "JPY", "CNY">>

\* the elements of a list
Range(list) == { list[k] : k \in 1..Len(list) }

-----------------------------------------------------------------------------
(* TransactionForm, named export: the form inside the modal of Transactions *)

\* of each reference list, the model selects among the first MaxOptions
MaxOptions == 3

Options(list) ==
    { list[k] : k \in 1..(IF Len(list) < MaxOptions THEN Len(list) ELSE MaxOptions) }

\* what a text input can hold
TextValues == { "", "x" }

\* what the amount input (type="number", step="0.01", no min) can hold: the
\* browser keeps "" for anything that is not a number
AmountTexts == { <<>>, <<"0">>, <<"2", "0">>, <<"-", "5">>,
                 <<"0", ".", "0", "1">> }

\* the positions of the range input: min="0" max="1" step="0.1"
SliderTexts == { <<"0">>, <<"0", ".", "1">>, <<"0", ".", "5">>, <<"1">> }

TransactionFormInit ==
    transactionForm =
        [loading |-> FALSE,
         riskScore |-> Num(20),
         formData |-> [user_id |-> "", amount |-> <<>>, currency |-> "USD",
                       transaction_type |-> "transfer", description |-> "",
                       sender_account |-> "", recipient_account |-> "",
                       country |-> "US", merchant_type |-> "retail"]]

\* handleChange(field, value): setFormData(prev => ({...prev, [field]: value}))
handleChange(field, value) ==
    /\ transactionForm' = [transactionForm EXCEPT !.formData[field] = value]
    /\ submitted' = None
    /\ UNCHANGED <<legacyForm, outsideForm>>

\* the onChange of each control, with the values the control can produce
HandleChange ==
    \/ \E field \in {"user_id", "description", "sender_account", "recipient_account"} :
           \E value \in TextValues : handleChange(field, value)
    \/ \E value \in AmountTexts : handleChange("amount", value)
    \/ \E value \in Options(CURRENCIES) : handleChange("currency", value)
    \/ \E value \in TransactionType : handleChange("transaction_type", value)
    \/ \E value \in Options(COUNTRIES) : handleChange("country", value)
    \/ \E value \in Options(MERCHANT_TYPES) : handleChange("merchant_type", value)

\* the slider: setRiskScore(parseFloat(e.target.value))
setRiskScore(text) ==
    /\ transactionForm' = [transactionForm EXCEPT !.riskScore = ParseFloat(text)]
    /\ submitted' = None
    /\ UNCHANGED <<legacyForm, outsideForm>>

SetRiskScore == \E text \in SliderTexts : setRiskScore(text)

\* the browser submits the form only when the controls marked required
\* (user id, amount, currency, sender, recipient, country) are filled in
FormIsValid(formData) ==
    /\ formData.user_id # ""
    /\ formData.amount # <<>>
    /\ formData.currency # ""
    /\ formData.sender_account # ""
    /\ formData.recipient_account # ""
    /\ formData.country # ""

\* handleSubmit: setLoading(true); build data; onSubmit(data), not awaited;
\* finally setLoading(false)
handleSubmit ==
    LET formData == transactionForm.formData
        data == TransactionCreate(
                    formData.user_id,
                    ParseFloat(formData.amount),
                    formData.currency,
                    formData.transaction_type,
                    IF formData.description # "" THEN Some(formData.description)
                    ELSE None,
                    formData.sender_account,
                    formData.recipient_account,
                    formData.country,
                    formData.merchant_type,
                    transactionForm.riskScore)
    IN  /\ ~transactionForm.loading
        /\ FormIsValid(formData)
        /\ submitted' = Some(data)
        /\ transactionForm' = [transactionForm EXCEPT !.loading = FALSE]
        /\ UNCHANGED <<legacyForm, outsideForm>>

-----------------------------------------------------------------------------
(* TransactionForm, default export *)

\* the options of its currency select
LegacyCurrencies == { "USD", "EUR", "GBP", "INR" }

\* the options of its transaction type select
LegacyTransactionTypes ==
    { "transfer", "payment", "withdrawal", "deposit", "investment" }

\* what its amount input (type="number", min="0", step="0.01") can hold
LegacyAmountTexts == { <<>>, <<"0">>, <<"2", "0">>, <<"-", "5">> }

LegacyFormInit ==
    legacyForm =
        [formData |-> [user_id |-> "", amount |-> <<>>, currency |-> "USD",
                       transaction_type |-> "transfer",
                       recipient_account |-> "", sender_account |-> "",
                       description |-> ""]]

\* handleChange(e): setFormData({...formData, [e.target.name]: e.target.value})
legacyHandleChange(name, value) ==
    /\ legacyForm' = [legacyForm EXCEPT !.formData[name] = value]
    /\ submitted' = None
    /\ UNCHANGED <<transactionForm, outsideForm>>

LegacyHandleChange ==
    \/ \E name \in {"user_id", "description", "sender_account", "recipient_account"} :
           \E value \in TextValues : legacyHandleChange(name, value)
    \/ \E value \in LegacyAmountTexts : legacyHandleChange("amount", value)
    \/ \E value \in LegacyCurrencies : legacyHandleChange("currency", value)
    \/ \E value \in LegacyTransactionTypes :
           legacyHandleChange("transaction_type", value)

\* required: user id, amount, sender, recipient; min="0" on the amount
LegacyFormIsValid(formData) ==
    /\ formData.user_id # ""
    /\ formData.amount # <<>>
    /\ ~ParseFloat(formData.amount).nan
    /\ ParseFloat(formData.amount).hundredths >= 0
    /\ formData.sender_account # ""
    /\ formData.recipient_account # ""

\* handleSubmit: onSubmit({...formData, amount: parseFloat(formData.amount)})
legacyHandleSubmit ==
    /\ LegacyFormIsValid(legacyForm.formData)
    /\ submitted' = Some([legacyForm.formData EXCEPT
                              !.amount = ParseFloat(legacyForm.formData.amount)])
    /\ UNCHANGED <<legacyForm, transactionForm, outsideForm>>

-----------------------------------------------------------------------------
(* getDashboardStats *)

\* Math.round of the non-negative quotient num / den: the nearest integer,
\* halves upwards
MathRound(num, den) == (2 * num + den) \div (2 * den)

\* tx.risk_level?.toLowerCase()
LevelOf(tx) ==
    IF IsSome(tx.risk_level) THEN Some(ToLowerCase(Val(tx.risk_level))) ELSE None

\* a forEach whose last branch is else if (level === 'low'): a transaction
\* without a risk level is counted nowhere
CountLevelsLowWhenNamed(transactions) ==
    LET Count(levels) ==
            Len(SelectSeq(transactions, LAMBDA tx : LevelOf(tx) \in levels))
        high == Count({Some(ToLowerCase(sHigh)), Some(ToLowerCase(sCritical))})
        medium == Count({Some(ToLowerCase(sMedium))})
    IN  [highRiskCount |-> high, mediumRiskCount |-> medium,
         lowRiskCount |-> Count({Some(ToLowerCase(sLow))}),
         pendingReviews |-> high + medium]

\* the forEach: high and critical count as high risk, medium as medium, and
\* everything else falls into the last else branch
RECURSIVE CountLevels(_)
CountLevels(transactions) ==
    IF Len(transactions) = 0
    THEN [highRiskCount |-> 0, mediumRiskCount |-> 0, lowRiskCount |-> 0,
          pendingReviews |-> 0]
    ELSE LET level == LevelOf(transactions[1])
             rest == CountLevels(Tail(transactions))
         IN  IF level = Some(ToLowerCase(sHigh)) \/ level = Some(ToLowerCase(sCritical))
             THEN [rest EXCEPT !.highRiskCount = @ + 1, !.pendingReviews = @ + 1]
             ELSE IF level = Some(ToLowerCase(sMedium))
             THEN [rest EXCEPT !.mediumRiskCount = @ + 1, !.pendingReviews = @ + 1]
             ELSE [rest EXCEPT !.lowRiskCount = @ + 1]

\* a compliance rate that stays at the 0 of the initial stats object when
\* there are no transactions
ComplianceRateZeroWhenEmpty(lowRiskCount, totalTransactions) ==
    IF totalTransactions > 0
    THEN MathRound(lowRiskCount * 100, totalTransactions)
    ELSE 0

\* totalTransactions > 0 ? Math.round((lowRiskCount / totalTransactions) * 100) : 100
ComplianceRate(lowRiskCount, totalTransactions) ==
    IF totalTransactions > 0
    THEN MathRound(lowRiskCount * 100, totalTransactions)
    ELSE 100

DashboardStats(totalTransactions, counts, complianceRate) ==
    [totalTransactions |-> totalTransactions,
     highRiskCount |-> counts.highRiskCount,
     mediumRiskCount |-> counts.mediumRiskCount,
     lowRiskCount |-> counts.lowRiskCount,
     complianceRate |-> complianceRate,
     pendingReviews |-> counts.pendingReviews]

\* the try branch of getDashboardStats, once getAll(1000, 0) has resolved
StatsOf(transactions) ==
    LET counts == CountLevels(transactions)
    IN  DashboardStats(Len(transactions), counts,
                       ComplianceRate(counts.lowRiskCount, Len(transactions)))

\* the catch branch of getDashboardStats, also the initial stats of Dashboard
DefaultStats ==
    [totalTransactions |-> 0, highRiskCount |-> 0, mediumRiskCount |-> 0,
     lowRiskCount |-> 0, complianceRate |-> 100, pendingReviews |-> 0]

-----------------------------------------------------------------------------
(* Dashboard page *)

\* at most this many fetchData calls are unfinished at once
MaxFetches == 2

DashboardPath == <<"/dashboard">>

DashboardInit(routed) ==
    /\ dashboard = [stats |-> [totalTransactions |-> 0, highRiskCount |-> 0,
                               mediumRiskCount |-> 0, lowRiskCount |-> 0,
                               complianceRate |-> 100, pendingReviews |-> 0],
                    transactions |-> <<>>, loading |-> TRUE,
                    refreshing |-> FALSE, effectDue |-> routed]
    /\ fetches = <<>>
    /\ statsResolved = None

\* a promise of Promise.all
Pending == [state |-> "pending", value |-> None]

Resolved(value) == [state |-> "fulfilled", value |-> Some(value)]

Failed == [state |-> "rejected", value |-> None]

\* fetchData up to its await: transactionApi.getAll(5, 0) and
\* getDashboardStats() are started together
startFetchData == Append(fetches, [txns |-> Pending, dashboardStats |-> Pending])

\* the mount effect: fetchData()
fetchData ==
    /\ dashboard.effectDue
    /\ Len(fetches) < MaxFetches
    /\ dashboard' = [dashboard EXCEPT !.effectDue = FALSE]
    /\ fetches' = startFetchData
    /\ toasts' = <<>>
    /\ statsResolved' = None
    /\ UNCHANGED <<store, outsideDashboard>>

\* handleRefresh: setRefreshing(true); fetchData().  The Refresh button is
\* rendered once loading is false and is disabled={refreshing}
handleRefresh ==
    /\ ~dashboard.loading
    /\ ~dashboard.refreshing
    /\ Len(fetches) < MaxFetches
    /\ dashboard' = [dashboard EXCEPT !.refreshing = TRUE]
    /\ fetches' = startFetchData
    /\ toasts' = <<>>
    /\ statsResolved' = None
    /\ UNCHANGED <<store, outsideDashboard>>

\* another client's create reaches the store
storeInsert ==
    /\ \E case \in CreateCases(store, CHOOSE data \in CreateInputs : ValidInput(data)) :
           /\ Len(case.store) <= MaxStore
           /\ store' = case.store
    /\ toasts' = <<>>
    /\ statsResolved' = None
    /\ UNCHANGED <<dashboard, fetches, outsideDashboard>>

\* fetchData after the await, for the call f whose promises are now p.
\* Promise.all rejects as soon as getAll(5, 0) rejects (getDashboardStats
\* never rejects): catch logs, finally clears both flags.  When both have
\* resolved: setTransactions, setStats, then finally.
AfterFetchData(before, p) ==
    IF before.txns.state = "pending" /\ p.txns.state = "rejected"
    THEN [dashboard EXCEPT !.loading = FALSE, !.refreshing = FALSE]
    ELSE IF /\ before.txns.state = "pending" \/ before.dashboardStats.state = "pending"
            /\ p.txns.state = "fulfilled" /\ p.dashboardStats.state = "fulfilled"
    THEN [dashboard EXCEPT !.transactions = Val(p.txns.value),
                           !.stats = Val(p.dashboardStats.value),
                           !.loading = FALSE, !.refreshing = FALSE]
    ELSE dashboard

\* a call is finished when both of its requests have settled
Unfinished(p) == p.txns.state = "pending" \/ p.dashboardStats.state = "pending"

SettleFetch(f, p) ==
    IF Unfinished(p) THEN [fetches EXCEPT ![f] = p] ELSE RemoveAt(fetches, f)

\* getAll(5, 0) of call f resolved
recentResolved(f, data) ==
    LET r == ResponseInterceptor(Fulfilled(data))
        p == [fetches[f] EXCEPT !.txns = Resolved(Val(r.result.value))]
    IN  /\ r.result.settled = "fulfilled"
        /\ dashboard' = AfterFetchData(fetches[f], p)
        /\ fetches' = SettleFetch(f, p)
        /\ toasts' = r.toasts
        /\ statsResolved' = None
        /\ UNCHANGED <<store, outsideDashboard>>

\* getAll(5, 0) of call f rejected
recentRejected(f, error) ==
    LET r == ResponseInterceptor(Rejected(error))
        p == [fetches[f] EXCEPT !.txns = Failed]
    IN  /\ r.result.settled = "rejected"
        /\ dashboard' = AfterFetchData(fetches[f], p)
        /\ fetches' = SettleFetch(f, p)
        /\ toasts' = r.toasts
        /\ statsResolved' = None
        /\ UNCHANGED <<store, outsideDashboard>>

\* getDashboardStats of call f: getAll(1000, 0) resolved, the stats are
\* computed from the list
statsComputed(f, transactions) ==
    LET r == ResponseInterceptor(Fulfilled(transactions))
        stats == StatsOf(Val(r.result.value))
        p == [fetches[f] EXCEPT !.dashboardStats = Resolved(stats)]
    IN  /\ r.result.settled = "fulfilled"
        /\ dashboard' = AfterFetchData(fetches[f], p)
        /\ fetches' = SettleFetch(f, p)
        /\ toasts' = r.toasts
        /\ statsResolved' = Some([transactions |-> transactions, stats |-> stats])
        /\ UNCHANGED <<store, outsideDashboard>>

\* getDashboardStats without its catch: the rejection of getAll(1000, 0)
\* becomes the rejection of getDashboardStats
statsDefaultedRethrows(f, error) ==
    LET r == ResponseInterceptor(Rejected(error))
        p == [fetches[f] EXCEPT !.dashboardStats = Failed]
    IN  /\ r.result.settled = "rejected"
        /\ dashboard' = AfterFetchData(fetches[f], p)
        /\ fetches' = SettleFetch(f, p)
        /\ toasts' = r.toasts
        /\ statsResolved' = None
        /\ UNCHANGED <<store, outsideDashboard>>

\* getDashboardStats of call f: getAll(1000, 0) rejected, the catch resolves
\* with the default stats
statsDefaulted(f, error) ==
    LET r == ResponseInterceptor(Rejected(error))
        p == [fetches[f] EXCEPT !.dashboardStats = Resolved(DefaultStats)]
    IN  /\ r.result.settled = "rejected"
        /\ dashboard' = AfterFetchData(fetches[f], p)
        /\ fetches' = SettleFetch(f, p)
        /\ toasts' = r.toasts
        /\ statsResolved' = None
        /\ UNCHANGED <<store, outsideDashboard>>

RecentResolved ==
    \E f \in 1..Len(fetches) :
        /\ fetches[f].txns.state = "pending"
        /\ recentResolved(f, ListWindow(store, 5, 0))

RecentRejected ==
    \E f \in 1..Len(fetches) :
        /\ fetches[f].txns.state = "pending"
        /\ \E error \in Failures : recentRejected(f, error)

StatsComputed ==
    \E f \in 1..Len(fetches) :
        /\ fetches[f].dashboardStats.state = "pending"
        /\ statsComputed(f, ListWindow(store, 1000, 0))

StatsDefaulted ==
    \E f \in 1..Len(fetches) :
        /\ fetches[f].dashboardStats.state = "pending"
        /\ \E error \in Failures : statsDefaulted(f, error)

-----------------------------------------------------------------------------
(* RiskBadge *)

\* risk scores are integers 0..MaxScore
MaxScore == 100

\* getColor with the first comparison strict
getColorStrict(score) ==
    IF score > 80 THEN "bg-red-100 text-red-800"
    ELSE IF score >= 50 THEN "bg-yellow-100 text-yellow-800"
    ELSE "bg-green-100 text-green-800"

getColor(score) ==
    IF score >= 80 THEN "bg-red-100 text-red-800"
    ELSE IF score >= 50 THEN "bg-yellow-100 text-yellow-800"
    ELSE "bg-green-100 text-green-800"

getLabel(score) ==
    IF score >= 80 THEN "Critical"
    ELSE IF score >= 50 THEN "Medium"
    ELSE "Low"

\* the component is mounted with a score and has not rendered yet
RiskBadgeInit(scores) ==
    \E score \in scores : riskBadge = [score |-> score, rendered |-> None]

\* RiskBadge({ score }): the span with its colour classes and its label
RiskBadge ==
    /\ riskBadge' = [riskBadge EXCEPT !.rendered =
           Some([className |-> getColor(riskBadge.score),
                 label |-> getLabel(riskBadge.score)])]
    /\ UNCHANGED outsideBadge

-----------------------------------------------------------------------------
(* The risk score cell of the Transactions and Dashboard tables *)

\* the span's className: (txn.risk_score ?? 0) > 80 ? ... > 40 ? ... : ...
scoreClass(risk_score) ==
    LET score == IF IsSome(risk_score) THEN Val(risk_score) ELSE 0
    IN  IF score > 80 THEN "text-red-600 font-bold"
        ELSE IF score > 40 THEN "text-amber-600 font-bold"
        ELSE "text-green-600 font-medium"

\* a row with this risk_score is in the list; no table has rendered it yet
ScoreCellInit(scores) ==
    \E risk_score \in scores :
        scoreCell = [risk_score |-> risk_score, transactions |-> None,
                     dashboard |-> None]

\* the row as the table of the Transactions page renders it
TransactionsScoreCell ==
    /\ scoreCell' = [scoreCell EXCEPT
                         !.transactions = Some(scoreClass(scoreCell.risk_score))]
    /\ UNCHANGED outsideCell

\* the row as the Recent Transactions table of Dashboard renders it
DashboardScoreCell ==
    /\ scoreCell' = [scoreCell EXCEPT
                         !.dashboard = Some(scoreClass(scoreCell.risk_score))]
    /\ UNCHANGED outsideCell

-----------------------------------------------------------------------------
(* The backend behind getById, analyze and delete, as section 4.1 states it *)

\* interface RiskResponse, as far as the page reads it
RiskResponse(transaction_id, risk_score, risk_level, compliance_explanation) ==
    [transaction_id |-> transaction_id, risk_score |-> risk_score,
     risk_level |-> risk_level,
     compliance_explanation |-> compliance_explanation]

\* the stored records with this id: none or one
Lookup(st, id) == { st[k] : k \in { k \in 1..Len(st) : st[k].id = id } }

NotFound ==
    AxiosError(Some(ErrorResponse(404, Some(ErrorBody(Some("NotFound"))))),
               "Request failed with status code 404")

EvaluatorUnavailable ==
    AxiosError(Some(ErrorResponse(503, Some(ErrorBody(Some("EvaluatorUnavailable"))))),
               "Request failed with status code 503")

\* no response at all: apiClient's timeout, or a network error
Timeout == AxiosError(None, "timeout of 30000ms exceeded")

\* getTransaction: the stored record, or NotFound
GetCases(st, id) ==
    IF Lookup(st, id) = {}
    THEN { Rejected(NotFound) }
    ELSE { Fulfilled(t) : t \in Lookup(st, id) } \cup { Rejected(Timeout) }

\* re-analysis overwrites the stored risk fields of an existing transaction
Overwrite(st, id, score) ==
    [k \in 1..Len(st) |->
        IF st[k].id = id
        THEN [st[k] EXCEPT !.risk_score = Some(score),
                           !.risk_level = Some(LevelOfScore(score))]
        ELSE st[k]]

\* the score a re-analysis returns: another one than the stored one
AnalyzeScores == { 95 }

\* analyze: the Risk Evaluator's outcome, stored when the transaction
\* exists; EvaluatorUnavailable when it does not answer
AnalyzeCases(st, body) ==
    { [store |-> Overwrite(st, body.transaction_id, sc),
       outcome |-> Fulfilled(RiskResponse(body.transaction_id, sc,
                                          LevelOfScore(sc), "explanation"))]
      : sc \in AnalyzeScores }
    \cup
    { [store |-> st, outcome |-> Rejected(EvaluatorUnavailable)] }

\* delete: removes the record, NotFound when there is none
DeleteCases(st, id) ==
    IF Lookup(st, id) = {}
    THEN { [store |-> st, outcome |-> Rejected(NotFound)] }
    ELSE { [store |-> SelectSeq(st, LAMBDA t : t.id # id),
            outcome |-> Fulfilled(None)],
           [store |-> st, outcome |-> Rejected(Timeout)] }

-----------------------------------------------------------------------------
(* TransactionDetail page: Approve, Flag, Delete and Re-analyze *)

\* a handler of the page starts only while fewer requests than this are in
\* flight
MaxDetailRequests == 2

WarningToast(message) == Toast("warning", message)

\* the action buttons are rendered once a transaction is displayed and are
\* disabled={actionLoading !== null}; pending effects run before a click is
\* handled
ActionButtonsEnabled ==
    /\ DetailMounted
    /\ ~transactionDetail.effectDue
    /\ IsSome(transactionDetail.transaction)
    /\ transactionDetail.actionLoading = None

\* handleApprove up to its await: setActionLoading('approve'), a timer of one
\* second
handleApprove ==
    /\ ActionButtonsEnabled
    /\ transactionDetail' = [transactionDetail EXCEPT
                                 !.actionLoading = Some("approve")]
    /\ timers' = Append(timers, "approve")
    /\ toasts' = <<>>
    /\ delivered' = None
    /\ UNCHANGED <<inflight, location, store, outsideDetailActions>>

\* handleFlag up to its await
handleFlag ==
    /\ ActionButtonsEnabled
    /\ transactionDetail' = [transactionDetail EXCEPT
                                 !.actionLoading = Some("flag")]
    /\ timers' = Append(timers, "flag")
    /\ toasts' = <<>>
    /\ delivered' = None
    /\ UNCHANGED <<inflight, location, store, outsideDetailActions>>

\* an Approve that notifies and leaves the page busy
handleApproveTimeoutStaysBusy(k) ==
    /\ timers[k] = "approve"
    /\ toasts' = <<SuccessToast(<<"Transaction approved and funds released.">>)>>
    /\ timers' = RemoveAt(timers, k)
    /\ delivered' = None
    /\ UNCHANGED <<transactionDetail, inflight, location, store,
                   outsideDetailActions>>

\* the timer of handleApprove fired: toast.success, setActionLoading(null)
handleApproveTimeout(k) ==
    /\ timers[k] = "approve"
    /\ toasts' = <<SuccessToast(<<"Transaction approved and funds released.">>)>>
    /\ transactionDetail' =
           DetailSet([transactionDetail EXCEPT !.actionLoading = None])
    /\ timers' = RemoveAt(timers, k)
    /\ delivered' = None
    /\ UNCHANGED <<inflight, location, store, outsideDetailActions>>

\* the timer of handleFlag fired: toast.warning, setActionLoading(null)
handleFlagTimeout(k) ==
    /\ timers[k] = "flag"
    /\ toasts' = <<WarningToast(
                       <<"Transaction flagged for manual compliance review.">>)>>
    /\ transactionDetail' =
           DetailSet([transactionDetail EXCEPT !.actionLoading = None])
    /\ timers' = RemoveAt(timers, k)
    /\ delivered' = None
    /\ UNCHANGED <<inflight, location, store, outsideDetailActions>>

HandleApproveTimeout == \E k \in 1..Len(timers) : handleApproveTimeout(k)

HandleFlagTimeout == \E k \in 1..Len(timers) : handleFlagTimeout(k)

\* handleDelete up to its await: nothing happens unless the user confirms;
\* then setActionLoading('delete') and transactionApi.delete(id)
handleDelete(confirmed) ==
    /\ ActionButtonsEnabled
    /\ Len(inflight) < MaxDetailRequests
    /\ IF confirmed
       THEN /\ transactionDetail' = [transactionDetail EXCEPT
                                         !.actionLoading = Some("delete")]
            /\ inflight' = Append(inflight,
                   Request("delete", [id |-> transactionDetail.id]))
       ELSE UNCHANGED <<transactionDetail, inflight>>
    /\ toasts' = <<>>
    /\ delivered' = None
    /\ UNCHANGED <<location, store, timers, outsideDetailActions>>

HandleDelete == \E confirmed \in BOOLEAN : handleDelete(confirmed)

\* delete resolved: toast.success, navigate('/transactions'), finally
\* setActionLoading(null)
handleDeleteFulfilled(i, case) ==
    LET r == ResponseInterceptor(case.outcome)
    IN  /\ r.result.settled = "fulfilled"
        /\ inflight' = RemoveAt(inflight, i)
        /\ delivered' = Some([request |-> inflight[i],
                              outcome |-> case.outcome, result |-> r.result])
        /\ toasts' = r.toasts
               \o <<SuccessToast(<<"Transaction deleted successfully">>)>>
        /\ location' = <<"/transactions">>
        /\ transactionDetail' =
               DetailSet([transactionDetail EXCEPT !.actionLoading = None])
        /\ store' = case.store
        /\ UNCHANGED <<timers, outsideDetailActions>>

\* delete rejected: toast.error, finally setActionLoading(null)
handleDeleteRejected(i, case) ==
    LET r == ResponseInterceptor(case.outcome)
    IN  /\ r.result.settled = "rejected"
        /\ inflight' = RemoveAt(inflight, i)
        /\ delivered' = Some([request |-> inflight[i],
                              outcome |-> case.outcome, result |-> r.result])
        /\ toasts' = r.toasts
               \o <<ErrorToast(<<"Failed to delete transaction">>)>>
        /\ transactionDetail' =
               DetailSet([transactionDetail EXCEPT !.actionLoading = None])
        /\ store' = case.store
        /\ UNCHANGED <<location, timers, outsideDetailActions>>

HandleDeleteFulfilled ==
    \E i \in 1..Len(inflight) :
        /\ inflight[i] = Request("delete", inflight[i].arg)
        /\ \E case \in DeleteCases(store, inflight[i].arg.id) :
               handleDeleteFulfilled(i, case)

HandleDeleteRejected ==
    \E i \in 1..Len(inflight) :
        /\ inflight[i] = Request("delete", inflight[i].arg)
        /\ \E case \in DeleteCases(store, inflight[i].arg.id) :
               handleDeleteRejected(i, case)

\* the user follows a link to another transaction while few requests are in
\* flight
RouteWhileFewRequests ==
    /\ Len(inflight) < MaxDetailRequests
    /\ RouteToTransaction

\* the object handleReanalyze passes to transactionApi.analyze
AnalyzeBody(transaction) ==
    [transaction_id |-> transaction.id,
     user_id |-> transaction.user_id,
     amount |-> transaction.amount,
     currency |-> transaction.currency,
     transaction_type |-> transaction.transaction_type,
     country |-> transaction.country,
     merchant_type |-> transaction.merchant_type,
     device_risk_score |-> transaction.device_risk_score]

\* the pending analyze call of handleReanalyze; id is the route id in the
\* handler's closure, which getById(id!) uses after the await.  before is
\* history: the transaction and the riskResponse on the page when the
\* handler started
AnalyzeRequest(body, id, before) ==
    [op |-> "analyze", arg |-> body, id |-> id, before |-> before]

\* the pending getById(id!) of handleReanalyze
RereadRequest(id, before) ==
    [op |-> "reread", arg |-> [id |-> id], before |-> before]

\* handleReanalyze up to its first await: the Re-analyze button is rendered
\* with the transaction and is disabled={loading}
handleReanalyze ==
    /\ DetailMounted
    /\ ~transactionDetail.effectDue
    /\ IsSome(transactionDetail.transaction)
    /\ ~transactionDetail.loading
    /\ Len(inflight) < MaxDetailRequests
    /\ transactionDetail' = [transactionDetail EXCEPT !.loading = TRUE]
    /\ inflight' = Append(inflight,
           AnalyzeRequest(AnalyzeBody(Val(transactionDetail.transaction)),
                          transactionDetail.id,
                          [transaction |-> transactionDetail.transaction,
                           riskResponse |-> transactionDetail.riskResponse]))
    /\ toasts' = <<>>
    /\ delivered' = None
    /\ UNCHANGED <<location, store, timers, outsideDetailActions>>

\* analyze resolved: setRiskResponse(analysis), then getById(id!)
analyzeFulfilled(i, case) ==
    LET r == ResponseInterceptor(case.outcome)
    IN  /\ r.result.settled = "fulfilled"
        /\ inflight' = Append(RemoveAt(inflight, i),
                              RereadRequest(inflight[i].id, inflight[i].before))
        /\ delivered' = Some([request |-> inflight[i],
                              outcome |-> case.outcome, result |-> r.result])
        /\ toasts' = r.toasts
        /\ transactionDetail' =
               DetailSet([transactionDetail EXCEPT
                              !.riskResponse = r.result.value])
        /\ store' = case.store
        /\ UNCHANGED <<location, timers, outsideDetailActions>>

\* analyze rejected: toast.error, finally setLoading(false)
analyzeRejected(i, case) ==
    LET r == ResponseInterceptor(case.outcome)
    IN  /\ r.result.settled = "rejected"
        /\ inflight' = RemoveAt(inflight, i)
        /\ delivered' = Some([request |-> inflight[i],
                              outcome |-> case.outcome, result |-> r.result])
        /\ toasts' = r.toasts
               \o <<ErrorToast(<<"Failed to re-analyze transaction">>)>>
        /\ transactionDetail' =
               DetailSet([transactionDetail EXCEPT !.loading = FALSE])
        /\ store' = case.store
        /\ UNCHANGED <<location, timers, outsideDetailActions>>

\* a re-read whose answer is not put on the page
rereadFulfilledKeepsTransaction(i, outcome) ==
    LET r == ResponseInterceptor(outcome)
    IN  /\ r.result.settled = "fulfilled"
        /\ inflight' = RemoveAt(inflight, i)
        /\ delivered' = Some([request |-> inflight[i],
                              outcome |-> outcome, result |-> r.result])
        /\ toasts' = r.toasts
               \o <<SuccessToast(<<"Transaction re-analyzed successfully">>)>>
        /\ transactionDetail' =
               DetailSet([transactionDetail EXCEPT !.loading = FALSE])
        /\ UNCHANGED <<location, store, timers, outsideDetailActions>>

\* the re-read resolved: setTransaction(updated), toast.success, finally
\* setLoading(false)
rereadFulfilled(i, outcome) ==
    LET r == ResponseInterceptor(outcome)
    IN  /\ r.result.settled = "fulfilled"
        /\ inflight' = RemoveAt(inflight, i)
        /\ delivered' = Some([request |-> inflight[i],
                              outcome |-> outcome, result |-> r.result])
        /\ toasts' = r.toasts
               \o <<SuccessToast(<<"Transaction re-analyzed successfully">>)>>
        /\ transactionDetail' =
               DetailSet([transactionDetail EXCEPT
                              !.transaction = r.result.value,
                              !.loading = FALSE])
        /\ UNCHANGED <<location, store, timers, outsideDetailActions>>

\* the re-read rejected: toast.error, finally setLoading(false)
rereadRejected(i, outcome) ==
    LET r == ResponseInterceptor(outcome)
    IN  /\ r.result.settled = "rejected"
        /\ inflight' = RemoveAt(inflight, i)
        /\ delivered' = Some([request |-> inflight[i],
                              outcome |-> outcome, result |-> r.result])
        /\ toasts' = r.toasts
               \o <<ErrorToast(<<"Failed to re-analyze transaction">>)>>
        /\ transactionDetail' =
               DetailSet([transactionDetail EXCEPT !.loading = FALSE])
        /\ UNCHANGED <<location, store, timers, outsideDetailActions>>

AnalyzeFulfilled ==
    \E i \in 1..Len(inflight) :
        /\ inflight[i].op = "analyze"
        /\ \E case \in AnalyzeCases(store, inflight[i].arg) :
               analyzeFulfilled(i, case)

AnalyzeRejected ==
    \E i \in 1..Len(inflight) :
        /\ inflight[i].op = "analyze"
        /\ \E case \in AnalyzeCases(store, inflight[i].arg) :
               analyzeRejected(i, case)

RereadFulfilled ==
    \E i \in 1..Len(inflight) :
        /\ inflight[i].op = "reread"
        /\ \E outcome \in GetCases(store, inflight[i].arg.id) :
               rereadFulfilled(i, outcome)

RereadRejected ==
    \E i \in 1..Len(inflight) :
        /\ inflight[i].op = "reread"
        /\ \E outcome \in GetCases(store, inflight[i].arg.id) :
               rereadRejected(i, outcome)

\* the effect's getById answered from the store
StoredTransactionFetched ==
    \E i \in 1..Len(inflight) :
        /\ inflight[i].op = "getById"
        /\ \E outcome \in GetCases(store, inflight[i].arg.id) :
               /\ outcome.settled = "fulfilled"
               /\ fetchTransactionFulfilled(i, Val(outcome.value))

StoredTransactionMissed ==
    \E i \in 1..Len(inflight) :
        /\ inflight[i].op = "getById"
        /\ \E outcome \in GetCases(store, inflight[i].arg.id) :
               /\ outcome.settled = "rejected"
               /\ fetchTransactionRejected(i, Val(outcome.reason))

\* generateReport answered: the Compliance Reporter's report, or
\* ReportGenerationFailed
ReportGenerationFailed ==
    AxiosError(Some(ErrorResponse(500, Some(ErrorBody(Some("ReportGenerationFailed"))))),
               "Request failed with status code 500")

ReportGenerated ==
    \E i \in 1..Len(inflight) :
        /\ inflight[i] = Request("generateReport", inflight[i].arg)
        /\ generateReportFulfilled(i,
               ComplianceReport(inflight[i].arg.id, "analysis", <<"file a SAR">>))

ReportFailed ==
    \E i \in 1..Len(inflight) :
        /\ inflight[i] = Request("generateReport", inflight[i].arg)
        /\ generateReportRejected(i, ReportGenerationFailed)

-----------------------------------------------------------------------------
(* Compliance page *)

CompliancePath == <<"/compliance">>

\* !s.trim(): s is empty or all blanks
IsBlank(s) == \A k \in 1..Len(s) : s[k] = " "

\* what the user types into the search box and into the transaction id box
SearchTerms == { <<>>, <<" ">>, <<"a", "m", "l">> }

TxIdInputs == { <<>>, <<"TXN-1">> }

\* the regulation base behind GET /compliance/regulations
Regulations == << [id |-> "AML-1", title |-> "Bank Secrecy Act",
                   content |-> "report cash above 10000",
                   category |-> Some("aml"), source |-> None] >>

\* searchRegulations maps the hits {content, source} to Regulation records
SearchResults(hits) ==
    [k \in 1..Len(hits) |->
        [id |-> <<"reg-", k - 1>>, title |-> <<"Regulation ", k>>,
         content |-> hits[k].content, category |-> None,
         source |-> Some(hits[k].source)]]

SearchHits(query) ==
    { <<>>, <<[content |-> "report cash above 10000", source |-> "BSA"]>> }

\* the useState initial values; the mount effect is due when the page is the
\* routed element
ComplianceInit(routed) ==
    compliance = [searchTerm |-> <<>>, regulations |-> <<>>, loading |-> TRUE,
                  searching |-> FALSE, generateTxId |-> <<>>,
                  generating |-> FALSE, effectDue |-> routed]

ComplianceMounted == location = CompliancePath

\* the page renders a spinner instead of its controls while loading; pending
\* effects run before an event is handled
ComplianceControls ==
    /\ ComplianceMounted
    /\ ~compliance.effectDue
    /\ ~compliance.loading

\* a request whose continuation is a handler of the Compliance page
ComplianceRequest(op, arg) == [op |-> op, arg |-> arg, caller |-> "Compliance"]

\* fetchRegulations up to its await: from the mount effect or the Refresh
\* button (disabled={loading})
fetchRegulations ==
    /\ ComplianceMounted
    /\ compliance.effectDue \/ ~compliance.loading
    /\ Len(inflight) < MaxInFlight
    /\ compliance' = [compliance EXCEPT !.loading = TRUE, !.effectDue = FALSE]
    /\ inflight' = Append(inflight, ComplianceRequest("getRegulations", None))
    /\ toasts' = <<>>
    /\ delivered' = None
    /\ UNCHANGED <<location, store, outsideCompliance>>

\* fetchRegulations after the await without its finally
fetchRegulationsSettledStaysLoading(i, outcome) ==
    LET r == ResponseInterceptor(outcome)
    IN  /\ inflight' = RemoveAt(inflight, i)
        /\ delivered' = Some([request |-> inflight[i], outcome |-> outcome,
                              result |-> r.result])
        /\ IF r.result.settled = "fulfilled"
           THEN /\ compliance' = [compliance EXCEPT
                                      !.regulations = Val(r.result.value)]
                /\ toasts' = r.toasts
           ELSE /\ UNCHANGED compliance
                /\ toasts' = r.toasts
                       \o <<ErrorToast(<<"Failed to load regulations">>)>>
        /\ UNCHANGED <<location, store, outsideCompliance>>

\* fetchRegulations after the await: setRegulations(data), or the catch's
\* toast; finally setLoading(false)
fetchRegulationsSettled(i, outcome) ==
    LET r == ResponseInterceptor(outcome)
    IN  /\ inflight' = RemoveAt(inflight, i)
        /\ delivered' = Some([request |-> inflight[i], outcome |-> outcome,
                              result |-> r.result])
        /\ IF r.result.settled = "fulfilled"
           THEN /\ compliance' = [compliance EXCEPT
                                      !.regulations = Val(r.result.value),
                                      !.loading = FALSE]
                /\ toasts' = r.toasts
           ELSE /\ compliance' = [compliance EXCEPT !.loading = FALSE]
                /\ toasts' = r.toasts
                       \o <<ErrorToast(<<"Failed to load regulations">>)>>
        /\ UNCHANGED <<location, store, outsideCompliance>>

FetchRegulationsSettled ==
    \E i \in 1..Len(inflight) :
        /\ inflight[i] = ComplianceRequest("getRegulations", None)
        /\ \E outcome \in { Fulfilled(Regulations), Rejected(Timeout) } :
               fetchRegulationsSettled(i, outcome)

\* onChange of the search box
setSearchTerm(term) ==
    /\ ComplianceControls
    /\ term # compliance.searchTerm
    /\ compliance' = [compliance EXCEPT !.searchTerm = term]
    /\ toasts' = <<>>
    /\ delivered' = None
    /\ UNCHANGED <<inflight, location, store, outsideCompliance>>

SetSearchTerm == \E term \in SearchTerms : setSearchTerm(term)

\* handleSearch up to its await: the Search button (disabled={searching}) or
\* Enter in the search box; a blank term reloads the regulations
handleSearch ==
    /\ ComplianceControls
    /\ Len(inflight) < MaxInFlight
    /\ IF IsBlank(compliance.searchTerm)
       THEN /\ compliance' = [compliance EXCEPT !.loading = TRUE]
            /\ inflight' = Append(inflight,
                                  ComplianceRequest("getRegulations", None))
       ELSE /\ compliance' = [compliance EXCEPT !.searching = TRUE]
            /\ inflight' = Append(inflight,
                   ComplianceRequest("searchRegulations",
                                     [query |-> compliance.searchTerm]))
    /\ toasts' = <<>>
    /\ delivered' = None
    /\ UNCHANGED <<location, store, outsideCompliance>>

\* handleSearch after the await: setRegulations(results), or the catch's
\* toast; finally setSearching(false)
handleSearchSettled(i, outcome) ==
    LET r == ResponseInterceptor(outcome)
    IN  /\ inflight' = RemoveAt(inflight, i)
        /\ delivered' = Some([request |-> inflight[i], outcome |-> outcome,
                              result |-> r.result])
        /\ IF r.result.settled = "fulfilled"
           THEN /\ compliance' = [compliance EXCEPT
                        !.regulations = SearchResults(Val(r.result.value)),
                        !.searching = FALSE]
                /\ toasts' = r.toasts
           ELSE /\ compliance' = [compliance EXCEPT !.searching = FALSE]
                /\ toasts' = r.toasts \o <<ErrorToast(<<"Search failed">>)>>
        /\ UNCHANGED <<location, store, outsideCompliance>>

HandleSearchSettled ==
    \E i \in 1..Len(inflight) :
        /\ inflight[i] = ComplianceRequest("searchRegulations", inflight[i].arg)
        /\ \E outcome \in { Fulfilled(hits) : hits \in SearchHits(inflight[i].arg.query) }
                              \cup { Rejected(Timeout) } :
               handleSearchSettled(i, outcome)

\* onChange of the transaction id box
setGenerateTxId(txId) ==
    /\ ComplianceControls
    /\ txId # compliance.generateTxId
    /\ compliance' = [compliance EXCEPT !.generateTxId = txId]
    /\ toasts' = <<>>
    /\ delivered' = None
    /\ UNCHANGED <<inflight, location, store, outsideCompliance>>

SetGenerateTxId == \E txId \in TxIdInputs : setGenerateTxId(txId)

\* handleGenerateReport up to its await: the Generate button
\* (disabled={generating})
handleGenerateReport ==
    /\ ComplianceControls
    /\ ~compliance.generating
    /\ Len(inflight) < MaxInFlight
    /\ IF IsBlank(compliance.generateTxId)
       THEN /\ toasts' = <<ErrorToast(<<"Please enter a transaction ID">>)>>
            /\ UNCHANGED <<compliance, inflight>>
       ELSE /\ toasts' = <<>>
            /\ compliance' = [compliance EXCEPT !.generating = TRUE]
            /\ inflight' = Append(inflight,
                   ComplianceRequest("generateReport",
                       [id |-> compliance.generateTxId, risk_score |-> 50,
                        risk_level |-> sMedium]))
    /\ delivered' = None
    /\ UNCHANGED <<location, store, outsideCompliance>>

\* handleGenerateReport after the await: a toast either way; finally
\* setGenerating(false)
handleGenerateReportSettled(i, outcome) ==
    LET r == ResponseInterceptor(outcome)
    IN  /\ inflight' = RemoveAt(inflight, i)
        /\ delivered' = Some([request |-> inflight[i], outcome |-> outcome,
                              result |-> r.result])
        /\ toasts' = r.toasts \o
               <<IF r.result.settled = "fulfilled"
                 THEN SuccessToast(<<"Report generated successfully">>)
                 ELSE ErrorToast(<<"Failed to generate report">>)>>
        /\ compliance' = [compliance EXCEPT !.generating = FALSE]
        /\ UNCHANGED <<location, store, outsideCompliance>>

HandleGenerateReportSettled ==
    \E i \in 1..Len(inflight) :
        /\ inflight[i] = ComplianceRequest("generateReport", inflight[i].arg)
        /\ \E outcome \in { Fulfilled(ComplianceReport(inflight[i].arg.id,
                                          "analysis", <<"file a SAR">>)),
                            Rejected(ReportGenerationFailed) } :
               handleGenerateReportSettled(i, outcome)

-----------------------------------------------------------------------------
(* Transactions page: delete from the list *)

\* transactionApi.delete(id) in flight; answer is what confirm() returned
\* before it was issued
DeleteRequest(id, answer) ==
    [op |-> "delete", arg |-> [id |-> id], confirm |-> answer]

ListRequests(q) == SelectSeq(q, LAMBDA r : r.op = "getAll")

\* the rows of the table, rendered once loading is false
Rows == IF transactionsPage.loading THEN {}
        ELSE { transactionsPage.transactions[k].id :
                   k \in 1..Len(transactionsPage.transactions) }

\* handleDeleteTransaction without the confirm() early return
handleDeleteTransactionUnasked(id, confirmed) ==
    /\ TransactionsMounted
    /\ ~transactionsPage.effectDue
    /\ ~transactionsPage.isModalOpen
    /\ id \in Rows
    /\ Len(inflight) < MaxInFlight
    /\ inflight' = Append(inflight, DeleteRequest(id, confirmed))
    /\ toasts' = <<>>
    /\ delivered' = None
    /\ UNCHANGED <<transactionsPage, location, store, createSeen,
                   outsideTransactions>>

\* handleDeleteTransaction up to its await: the trash button of a row
handleDeleteTransaction(id, confirmed) ==
    /\ TransactionsMounted
    /\ ~transactionsPage.effectDue
    /\ ~transactionsPage.isModalOpen
    /\ id \in Rows
    /\ Len(inflight) < MaxInFlight
    /\ IF confirmed
       THEN inflight' = Append(inflight, DeleteRequest(id, confirmed))
       ELSE UNCHANGED inflight
    /\ toasts' = <<>>
    /\ delivered' = None
    /\ UNCHANGED <<transactionsPage, location, store, createSeen,
                   outsideTransactions>>

HandleDeleteTransaction ==
    \E id \in TransactionIds, confirmed \in BOOLEAN :
        handleDeleteTransaction(id, confirmed)

\* handleDeleteTransaction after the await: toast.success, then
\* fetchTransactions() up to its await
handleDeleteTransactionFulfilled(i, case) ==
    LET r == ResponseInterceptor(case.outcome)
    IN  /\ r.result.settled = "fulfilled"
        /\ store' = case.store
        /\ inflight' = Append(RemoveAt(inflight, i),
                              Request("getAll", [limit |-> 100, offset |-> 0]))
        /\ delivered' = Some([request |-> inflight[i],
                              outcome |-> case.outcome, result |-> r.result])
        /\ toasts' = r.toasts \o <<SuccessToast(<<"Transaction deleted">>)>>
        /\ transactionsPage' =
               TransactionsSet([transactionsPage EXCEPT !.loading = TRUE])
        /\ UNCHANGED <<location, createSeen, outsideTransactions>>

\* handleDeleteTransaction after the await, rejected: the catch
handleDeleteTransactionRejected(i, case) ==
    LET r == ResponseInterceptor(case.outcome)
    IN  /\ r.result.settled = "rejected"
        /\ store' = case.store
        /\ inflight' = RemoveAt(inflight, i)
        /\ delivered' = Some([request |-> inflight[i],
                              outcome |-> case.outcome, result |-> r.result])
        /\ toasts' = r.toasts
               \o <<ErrorToast(<<"Failed to delete transaction">>)>>
        /\ UNCHANGED <<transactionsPage, location, createSeen,
                       outsideTransactions>>

HandleDeleteTransactionFulfilled ==
    \E i \in 1..Len(inflight) :
        /\ inflight[i].op = "delete"
        /\ inflight[i] = DeleteRequest(inflight[i].arg.id, TRUE)
        /\ \E case \in DeleteCases(store, inflight[i].arg.id) :
               handleDeleteTransactionFulfilled(i, case)

HandleDeleteTransactionRejected ==
    \E i \in 1..Len(inflight) :
        /\ inflight[i].op = "delete"
        /\ inflight[i] = DeleteRequest(inflight[i].arg.id, TRUE)
        /\ \E case \in DeleteCases(store, inflight[i].arg.id) :
               handleDeleteTransactionRejected(i, case)

\* a click on a row: navigate(`/transactions/${txn.id}`)
handleRowClick(id) ==
    /\ TransactionsMounted
    /\ ~transactionsPage.effectDue
    /\ ~transactionsPage.isModalOpen
    /\ id \in Rows
    /\ location' = <<"/transactions/", id>>
    /\ toasts' = <<>>
    /\ delivered' = None
    /\ UNCHANGED <<transactionsPage, inflight, store, createSeen,
                   outsideTransactions>>

HandleRowClick == \E id \in TransactionIds : handleRowClick(id)

-----------------------------------------------------------------------------
(* App: the routes, and the Sidebar that links to them *)

\* the browser keeps at most this many entries below the current one
MaxHistory == 2

\* Sidebar.navItems
navItems == { [to |-> <<"/">>, label |-> "Dashboard"],
              [to |-> TransactionsPath, label |-> "Transactions"],
              [to |-> CompliancePath, label |-> "Compliance"],
              [to |-> <<"/bulk-reports">>, label |-> "Bulk Reports"] }

\* what can be typed into the address bar
Urls == { nav.to : nav \in navItems }
            \cup { DashboardPath, DetailPath("TXN-1"), <<"/home">>,
                   <<"/dashboard/", "x">> }

\* <Routes>: the element the path is matched to
RouteElement(path) ==
    IF path = <<"/">> THEN "BulkReports"
    ELSE IF path = DashboardPath THEN "Dashboard"
    ELSE IF path = TransactionsPath THEN "Transactions"
    ELSE IF Len(path) = 2 /\ path[1] = "/transactions/"
         THEN "TransactionDetail"
    ELSE IF path = CompliancePath THEN "Compliance"
    ELSE IF path = <<"/bulk-reports">> THEN "BulkReports"
    ELSE "Navigate"

\* <Navigate to="/" replace />: an unmatched path is replaced by "/"
Landing(path) == IF RouteElement(path) = "Navigate" THEN <<"/">> ELSE path

\* the page on screen
Page == RouteElement(location)

\* a click on a NavLink of the Sidebar pushes its target
navLink(nav) ==
    /\ Len(history) < MaxHistory
    /\ history' = Append(history, location)
    /\ location' = Landing(nav.to)
    /\ UNCHANGED outsideRouter

NavLink == \E nav \in navItems : navLink(nav)

\* the user enters a URL: the router renders its route, or the redirect
enterUrl(url) ==
    /\ Len(history) < MaxHistory
    /\ history' = Append(history, location)
    /\ location' = Landing(url)
    /\ UNCHANGED outsideRouter

EnterUrl == \E url \in Urls : enterUrl(url)

-----------------------------------------------------------------------------
(* Transactions page: the form in the modal *)

\* the form is rendered inside the modal of the Transactions page
FormShown == TransactionsMounted /\ transactionsPage.isModalOpen

\* the user fills in a required text input, or the amount
typeInto ==
    /\ FormShown
    /\ \/ \E field \in {"user_id", "sender_account", "recipient_account"} :
              handleChange(field, "x")
       \/ handleChange("amount", <<"2", "0">>)

\* the submit button (disabled={loading}) with onSubmit={handleCreateTransaction}:
\* handleSubmit calls setLoading(true), builds data, calls onSubmit(data),
\* which runs handleCreateTransaction up to its await and returns its promise,
\* and without awaiting it runs finally setLoading(false)
handleSubmitCreate ==
    LET formData == transactionForm.formData
        data == TransactionCreate(
                    formData.user_id,
                    ParseFloat(formData.amount),
                    formData.currency,
                    formData.transaction_type,
                    IF formData.description # "" THEN Some(formData.description)
                    ELSE None,
                    formData.sender_account,
                    formData.recipient_account,
                    formData.country,
                    formData.merchant_type,
                    transactionForm.riskScore)
    IN  /\ FormShown
        /\ ~transactionForm.loading
        /\ FormIsValid(formData)
        /\ Len(inflight) < MaxInFlight
        /\ submitted' = Some(data)
        /\ transactionForm' = [transactionForm EXCEPT !.loading = FALSE]
        /\ inflight' = Append(inflight, Request("create", data))
        /\ toasts' = <<>>
        /\ delivered' = None
        /\ UNCHANGED <<location, store, transactionsPage, createSeen, legacyForm,
                       bulkReports, transactionDetail, dashboardVars, riskBadge,
                       timers, compliance, scoreCell, history>>

-----------------------------------------------------------------------------
(* Specifications: one per page or module.  Each starts with its page as the
   routed element (the index route renders BulkReports) and the other pages
   in their initial state, which they keep. *)

\* nothing in flight, nothing notified, an empty store
Quiet ==
    /\ toasts = <<>>
    /\ inflight = <<>>
    /\ store = <<>>
    /\ timers = <<>>
    /\ ApiInit

\* both forms as constructed, nothing submitted; the Dashboard and a badge
\* as constructed
FormsInit ==
    /\ TransactionFormInit
    /\ LegacyFormInit
    /\ submitted = None

IdleInit ==
    /\ FormsInit
    /\ ComplianceInit(FALSE)
    /\ ScoreCellInit({None})
    /\ history = <<>>
    /\ DashboardInit(FALSE)
    /\ RiskBadgeInit({0})

InitApi ==
    /\ Quiet
    /\ location = <<"/">>
    /\ BulkReportsInit
    /\ TransactionDetailInit("TXN-1", FALSE)
    /\ TransactionsInit(FALSE)
    /\ IdleInit

NextApi == ApiRequest \/ ApiFulfil \/ ApiFail

SpecApi == InitApi /\ [][NextApi]_vars

InitBulk ==
    /\ Quiet
    /\ location = <<"/">>
    /\ BulkReportsInit
    /\ TransactionDetailInit("TXN-1", FALSE)
    /\ TransactionsInit(FALSE)
    /\ IdleInit

NextBulk ==
    \/ HandleFileChange
    \/ handleUpload
    \/ UploadFulfilled
    \/ UploadRejected
    \/ handleDownloadReport
    \/ DownloadFulfilled
    \/ DownloadRejected
    \/ clearFile

SpecBulk == InitBulk /\ [][NextBulk]_vars

InitDetail ==
    /\ Quiet
    /\ \E id \in TransactionIds :
           /\ location = DetailPath(id)
           /\ TransactionDetailInit(id, TRUE)
    /\ BulkReportsInit
    /\ TransactionsInit(FALSE)
    /\ IdleInit

NextDetail ==
    \/ RouteToTransaction
    \/ fetchTransaction
    \/ FetchTransactionFulfilled
    \/ FetchTransactionRejected
    \/ GenerateReportFulfilled
    \/ GenerateReportRejected

SpecDetail == InitDetail /\ [][NextDetail]_vars

\* TransactionDetail in front of a store that holds a scored transaction (0
\* is a score) and an unscored one: once with Approve, Flag and Delete, once
\* with Re-analyze
InitDetailActions ==
    /\ toasts = <<>>
    /\ inflight = <<>>
    /\ timers = <<>>
    /\ ApiInit
    /\ store = << Transaction("TXN-2", None, None),
                  Transaction("TXN-1", Some(0), Some(sLow)) >>
    /\ \E id \in TransactionIds :
           /\ location = DetailPath(id)
           /\ TransactionDetailInit(id, TRUE)
    /\ BulkReportsInit
    /\ TransactionsInit(FALSE)
    /\ IdleInit

NextDetailActions ==
    \/ RouteToTransaction
    \/ fetchTransaction
    \/ StoredTransactionFetched
    \/ StoredTransactionMissed
    \/ ReportGenerated
    \/ ReportFailed
    \/ handleApprove
    \/ handleFlag
    \/ HandleApproveTimeout
    \/ HandleFlagTimeout
    \/ HandleDelete
    \/ HandleDeleteFulfilled
    \/ HandleDeleteRejected

NextReanalyze ==
    \/ RouteWhileFewRequests
    \/ fetchTransaction
    \/ StoredTransactionFetched
    \/ StoredTransactionMissed
    \/ ReportGenerated
    \/ ReportFailed
    \/ handleReanalyze
    \/ AnalyzeFulfilled
    \/ AnalyzeRejected
    \/ RereadFulfilled
    \/ RereadRejected

SpecReanalyze == InitDetailActions /\ [][NextReanalyze]_vars

SpecDetailActions == InitDetailActions /\ [][NextDetailActions]_vars

InitTransactions ==
    /\ Quiet
    /\ location = TransactionsPath
    /\ TransactionsInit(TRUE)
    /\ IdleInit
    /\ BulkReportsInit
    /\ TransactionDetailInit("TXN-1", FALSE)

NextTransactions ==
    \/ fetchTransactions
    \/ FetchTransactionsFulfilled
    \/ FetchTransactionsRejected
    \/ openModal
    \/ HandleCreateTransaction
    \/ HandleCreateFulfilled
    \/ HandleCreateRejected

SpecTransactions == InitTransactions /\ [][NextTransactions]_vars

\* the Transactions page over a store of two transactions
InitDelete ==
    /\ toasts = <<>>
    /\ inflight = <<>>
    /\ timers = <<>>
    /\ store = << Transaction("TXN-2", None, None),
                  Transaction("TXN-1", Some(0), Some(sLow)) >>
    /\ location = TransactionsPath
    /\ TransactionsInit(TRUE)
    /\ ApiInit
    /\ IdleInit
    /\ BulkReportsInit
    /\ TransactionDetailInit("TXN-1", FALSE)

NextDelete ==
    \/ fetchTransactions
    \/ FetchTransactionsFulfilled
    \/ FetchTransactionsRejected
    \/ HandleDeleteTransaction
    \/ HandleDeleteTransactionFulfilled
    \/ HandleDeleteTransactionRejected
    \/ HandleRowClick

SpecDelete == InitDelete /\ [][NextDelete]_vars

\* every page, each started as the routed element in front of the same store;
\* the Transactions page is the one a handler of TransactionDetail navigates
\* to, so its mount effect is due whenever it becomes the routed element
StartPaths == { <<"/">>, DashboardPath, TransactionsPath, DetailPath("TXN-1"),
                CompliancePath }

BulkMounted == location = <<"/">>

DashboardMounted == location = DashboardPath

InitBusy ==
    /\ toasts = <<>>
    /\ inflight = <<>>
    /\ timers = <<>>
    /\ ApiInit
    /\ store = << Transaction("TXN-2", None, None),
                  Transaction("TXN-1", Some(0), Some(sLow)) >>
    /\ location \in StartPaths
    /\ BulkReportsInit
    /\ DashboardInit(DashboardMounted)
    /\ TransactionsInit(TRUE)
    /\ TransactionDetailInit("TXN-1", location = DetailPath("TXN-1"))
    /\ ComplianceInit(ComplianceMounted)
    /\ ScoreCellInit({None})
    /\ history = <<>>
    /\ FormsInit
    /\ RiskBadgeInit({0})

\* the user picks a spreadsheet on BulkReports
SelectSpreadsheet ==
    handleFileChange(Some(File(<<"A", ".", "C", "S", "V">>, 1)))

NextBusy ==
    \/ BulkMounted /\ SelectSpreadsheet
    \/ BulkMounted /\ handleUpload
    \/ BulkMounted /\ UploadFulfilled
    \/ BulkMounted /\ UploadRejected
    \/ BulkMounted /\ handleDownloadReport
    \/ BulkMounted /\ DownloadFulfilled
    \/ BulkMounted /\ DownloadRejected
    \/ fetchData
    \/ handleRefresh
    \/ RecentResolved
    \/ RecentRejected
    \/ StatsComputed
    \/ StatsDefaulted
    \/ fetchTransactions
    \/ FetchTransactionsFulfilled
    \/ FetchTransactionsRejected
    \/ HandleDeleteTransaction
    \/ HandleDeleteTransactionFulfilled
    \/ HandleDeleteTransactionRejected
    \/ fetchTransaction
    \/ StoredTransactionFetched
    \/ StoredTransactionMissed
    \/ ReportGenerated
    \/ ReportFailed
    \/ handleApprove
    \/ handleFlag
    \/ HandleApproveTimeout
    \/ HandleFlagTimeout
    \/ HandleDelete
    \/ HandleDeleteFulfilled
    \/ HandleDeleteRejected
    \/ handleReanalyze
    \/ AnalyzeFulfilled
    \/ AnalyzeRejected
    \/ RereadFulfilled
    \/ RereadRejected
    \/ fetchRegulations
    \/ FetchRegulationsSettled
    \/ SetSearchTerm
    \/ handleSearch
    \/ HandleSearchSettled
    \/ SetGenerateTxId
    \/ handleGenerateReport
    \/ HandleGenerateReportSettled

\* React runs a pending mount effect; apiClient's timeout makes every request
\* settle one way or the other; a timer fires
EffectsRun ==
    /\ WF_vars(fetchData)
    /\ WF_vars(transactionsPage.effectDue /\ fetchTransactions)
    /\ WF_vars(fetchTransaction)
    /\ WF_vars(compliance.effectDue /\ fetchRegulations)

RequestsSettle ==
    /\ WF_vars(BulkMounted /\ (UploadFulfilled \/ UploadRejected))
    /\ WF_vars(BulkMounted /\ (DownloadFulfilled \/ DownloadRejected))
    /\ WF_vars(RecentResolved \/ RecentRejected)
    /\ WF_vars(StatsComputed \/ StatsDefaulted)
    /\ WF_vars(FetchTransactionsFulfilled \/ FetchTransactionsRejected)
    /\ WF_vars(HandleDeleteTransactionFulfilled \/ HandleDeleteTransactionRejected)
    /\ WF_vars(StoredTransactionFetched \/ StoredTransactionMissed)
    /\ WF_vars(ReportGenerated \/ ReportFailed)
    /\ WF_vars(HandleDeleteFulfilled \/ HandleDeleteRejected)
    /\ WF_vars(AnalyzeFulfilled \/ AnalyzeRejected)
    /\ WF_vars(RereadFulfilled \/ RereadRejected)
    /\ WF_vars(FetchRegulationsSettled)
    /\ WF_vars(HandleSearchSettled)
    /\ WF_vars(HandleGenerateReportSettled)

TimersFire ==
    /\ WF_vars(HandleApproveTimeout)
    /\ WF_vars(HandleFlagTimeout)

SpecBusy ==
    InitBusy /\ [][NextBusy]_vars /\ EffectsRun /\ RequestsSettle /\ TimersFire

\* a table row for every risk score, and one without a score
InitCells ==
    /\ Quiet
    /\ location = TransactionsPath
    /\ ScoreCellInit({None} \cup { Some(score) : score \in 0..MaxScore })
    /\ history = <<>>
    /\ RiskBadgeInit({0})
    /\ DashboardInit(FALSE)
    /\ FormsInit
    /\ ComplianceInit(FALSE)
    /\ TransactionsInit(FALSE)
    /\ BulkReportsInit
    /\ TransactionDetailInit("TXN-1", FALSE)

NextCells ==
    \/ TransactionsScoreCell
    \/ DashboardScoreCell

SpecCells == InitCells /\ [][NextCells]_vars

\* the application opened at any URL
InitRoutes ==
    /\ Quiet
    /\ \E url \in Urls : location = Landing(url)
    /\ BulkReportsInit
    /\ TransactionDetailInit("TXN-1", FALSE)
    /\ TransactionsInit(FALSE)
    /\ IdleInit

NextRoutes ==
    \/ NavLink
    \/ EnterUrl

SpecRoutes == InitRoutes /\ [][NextRoutes]_vars

\* the Transactions page with the form in its modal
NextSubmit ==
    \/ fetchTransactions
    \/ FetchTransactionsFulfilled
    \/ FetchTransactionsRejected
    \/ openModal
    \/ typeInto
    \/ handleSubmitCreate
    \/ HandleCreateFulfilled
    \/ HandleCreateRejected

SpecSubmit == InitTransactions /\ [][NextSubmit]_vars

\* the form in the modal, opened on the Transactions page
InitForm ==
    /\ Quiet
    /\ location = TransactionsPath
    /\ TransactionsInit(FALSE)
    /\ IdleInit
    /\ BulkReportsInit
    /\ TransactionDetailInit("TXN-1", FALSE)

NextForm == HandleChange \/ SetRiskScore \/ handleSubmit

SpecForm == InitForm /\ [][NextForm]_vars

NextLegacyForm == LegacyHandleChange \/ legacyHandleSubmit

SpecLegacyForm == InitForm /\ [][NextLegacyForm]_vars

InitDashboard ==
    /\ Quiet
    /\ location = DashboardPath
    /\ DashboardInit(TRUE)
    /\ RiskBadgeInit({0})
    /\ FormsInit
    /\ ComplianceInit(FALSE)
    /\ ScoreCellInit({None})
    /\ history = <<>>
    /\ TransactionsInit(FALSE)
    /\ BulkReportsInit
    /\ TransactionDetailInit("TXN-1", FALSE)

NextDashboard ==
    \/ fetchData
    \/ handleRefresh
    \/ storeInsert
    \/ RecentResolved
    \/ RecentRejected
    \/ StatsComputed
    \/ StatsDefaulted

SpecDashboard == InitDashboard /\ [][NextDashboard]_vars

InitBadge ==
    /\ Quiet
    /\ location = TransactionsPath
    /\ RiskBadgeInit(0..MaxScore)
    /\ DashboardInit(FALSE)
    /\ FormsInit
    /\ ComplianceInit(FALSE)
    /\ ScoreCellInit({None})
    /\ history = <<>>
    /\ TransactionsInit(FALSE)
    /\ BulkReportsInit
    /\ TransactionDetailInit("TXN-1", FALSE)

NextBadge == RiskBadge

SpecBadge == InitBadge /\ [][NextBadge]_vars

-----------------------------------------------------------------------------
(* Properties of the Bulk Reports page *)

\* the format / size gate as the specification states it: the name ends in
\* one of the accepted extensions, whatever the case, and the size is at
\* most 10 MiB
PassesFileGate(f) ==
    /\ \E suffix \in allowedTypes : EndsWith(ToLowerCase(f.name), suffix)
    /\ f.size <= MaxFileSize

\* C1: in every reachable state the selected file is absent or has a name
\* ending in .csv, .xlsx, .xls or .pdf (case-insensitive) and a size of at
\* most 10 MiB, and so has every file handed to uploadFile or
\* uploadFileWithReport.
C1_SelectedFilePassesGate ==
    /\ IsSome(bulkReports.file) => PassesFileGate(Val(bulkReports.file))
    /\ \A i \in 1..Len(inflight) :
           inflight[i].op \in {"uploadFile", "uploadFileWithReport"}
               => PassesFileGate(inflight[i].arg)

\* C2: a step that reports a rejected selection (wrong type or too large)
\* leaves the selected file, the displayed result, the busy flags and the
\* set of requests in flight exactly as they were.
C2_RejectedSelectionHasNoEffect ==
    [][(toasts' = <<InvalidTypeToast>> \/ toasts' = <<TooLargeToast>>)
          => (bulkReports' = bulkReports /\ inflight' = inflight)]_vars

\* a too-large file has just been rejected while an earlier file and its
\* result are on the page
C2_Witness ==
    /\ toasts = <<TooLargeToast>>
    /\ IsSome(bulkReports.file)
    /\ IsSome(bulkReports.result)

-----------------------------------------------------------------------------
(* Properties of apiClient *)

\* C4: a request that fails (error response, empty error body, timeout or
\* network error) reaches its caller as a rejection carrying the same error,
\* and the step that settles it emits an error notification.
C4_FailurePropagates ==
    (IsSome(delivered) /\ Val(delivered).outcome.settled = "rejected")
        => /\ Val(delivered).result.settled = "rejected"
           /\ Val(delivered).result.reason = Val(delivered).outcome.reason
           /\ \E k \in 1..Len(toasts) :
                  /\ toasts[k].level = "error"
                  /\ toasts[k].message[1] = "API Error: "

\* a request has failed with no response at all (timeout)
C4_Witness ==
    /\ IsSome(delivered)
    /\ Val(delivered).outcome.settled = "rejected"
    /\ ~IsSome(Val(Val(delivered).outcome.reason).response)

-----------------------------------------------------------------------------
(* Properties of report generation *)

\* C3: when a generateReport call issued by TransactionDetail has just
\* failed, the page signals the failure (an error notification) and its
\* analysis card presents neither a report nor the "is being processed"
\* text.
C3_ReportFailureIsSurfaced ==
    (/\ IsSome(delivered)
     /\ Val(delivered).request.op = "generateReport"
     /\ Val(delivered).outcome.settled = "rejected"
     /\ DetailMounted)
        => /\ \E k \in 1..Len(toasts) : toasts[k].level = "error"
           /\ AnalysisCard.shows \notin {"report", "processing"}

-----------------------------------------------------------------------------
(* Properties of the Transactions page *)

\* C5: after a create attempt the user-visible outcome (page state, route and
\* the page's message) of "saved but unscored" (EvaluatorUnavailable, record
\* persisted) differs from that of "fully failed" (ValidationError, nothing
\* persisted).
C5_DegradedWriteIsDistinguished ==
    (IsSome(createSeen.EvaluatorUnavailable) /\ IsSome(createSeen.ValidationError))
        => createSeen.EvaluatorUnavailable # createSeen.ValidationError

-----------------------------------------------------------------------------
(* Properties of the transaction forms *)

\* C6: whatever a transaction form passes to onSubmit has transaction_type in
\* TransactionType, currency in CURRENCIES, country in COUNTRIES and
\* merchant_type in MERCHANT_TYPES.
C6_EnumeratedFieldsInRange ==
    IsSome(submitted) =>
        LET data == Val(submitted)
        IN  /\ data.transaction_type \in TransactionType
            /\ data.currency \in Range(CURRENCIES)
            /\ "country" \in DOMAIN data /\ data.country \in Range(COUNTRIES)
            /\ "merchant_type" \in DOMAIN data
            /\ data.merchant_type \in Range(MERCHANT_TYPES)

\* C7: whatever the form of the Transactions page passes to onSubmit has an
\* amount that is a number >= 0 and a device_risk_score in [0,1].
C7_NumericFieldsInRange ==
    IsSome(submitted) =>
        LET data == Val(submitted)
        IN  /\ ~data.amount.nan
            /\ data.amount.hundredths >= 0
            /\ ~data.device_risk_score.nan
            /\ data.device_risk_score.hundredths >= 0
            /\ data.device_risk_score.hundredths <= 100

-----------------------------------------------------------------------------
(* Properties of getDashboardStats and Dashboard *)

\* the transactions of a list whose risk level is Low, whatever the case
RECURSIVE CountLow(_)
CountLow(transactions) ==
    IF Len(transactions) = 0 THEN 0
    ELSE (IF LevelOf(transactions[1]) = Some(ToLowerCase(sLow)) THEN 1 ELSE 0)
         + CountLow(Tail(transactions))

\* C8: for a non-empty list, complianceRate is 100 * (transactions whose
\* level is Low) / (transactions), rounded to the nearest integer; unscored
\* transactions and the other levels are not counted as Low.
C8_ComplianceRateCountsLowOnly ==
    (IsSome(statsResolved) /\ Len(Val(statsResolved).transactions) > 0)
        => Val(statsResolved).stats.complianceRate =
               MathRound(100 * CountLow(Val(statsResolved).transactions),
                         Len(Val(statsResolved).transactions))

\* C9: getDashboardStats on an empty list resolves with totalTransactions 0
\* and complianceRate 100, and the Dashboard holds the same two values from
\* its construction until its first load settles.
C9_EmptyListIsFullyCompliant ==
    /\ (IsSome(statsResolved) /\ Val(statsResolved).transactions = <<>>)
           => /\ Val(statsResolved).stats.totalTransactions = 0
              /\ Val(statsResolved).stats.complianceRate = 100
    /\ dashboard.loading
           => /\ dashboard.stats.totalTransactions = 0
              /\ dashboard.stats.complianceRate = 100

\* the stats of an empty list have just been computed
C9_Witness ==
    /\ IsSome(statsResolved)
    /\ Val(statsResolved).transactions = <<>>
    /\ Val(statsResolved).stats.complianceRate = 100

-----------------------------------------------------------------------------
(* Properties of RiskBadge *)

\* C10: for every score 0..100 the badge is labelled Low iff score < 50,
\* Medium iff 50 <= score < 80, High or Critical iff score >= 80, and it is
\* green, yellow and red on the same three bands.
C10_BadgeFollowsBands ==
    IsSome(riskBadge.rendered) =>
        LET score == riskBadge.score
            badge == Val(riskBadge.rendered)
        IN  /\ badge.label = "Low" <=> score < 50
            /\ badge.label = "Medium" <=> (50 <= score /\ score < 80)
            /\ badge.label \in {"High", "Critical"} <=> score >= 80
            /\ badge.className = "bg-green-100 text-green-800" <=> score < 50
            /\ badge.className = "bg-yellow-100 text-yellow-800"
                   <=> (50 <= score /\ score < 80)
            /\ badge.className = "bg-red-100 text-red-800" <=> score >= 80

\* the badge has been rendered for the score on the red boundary
C10_Witness ==
    /\ riskBadge.score = 80
    /\ IsSome(riskBadge.rendered)
    /\ Val(riskBadge.rendered).label = "Critical"

-----------------------------------------------------------------------------
(* Properties of TransactionDetail *)

\* the page renders a compliance report: the transaction view is on screen
\* and the report has a narrative or recommendations to show
DisplaysReport ==
    /\ DetailMounted
    /\ IsSome(transactionDetail.transaction)
    /\ IsSome(transactionDetail.complianceReport)
    /\ \/ Val(transactionDetail.complianceReport).llm_analysis # ""
       \/ Val(transactionDetail.complianceReport).recommendations # <<>>

\* C11: whenever TransactionDetail displays a compliance report, the report
\* was generated for the id, the risk_score and the risk_level of the
\* transaction it displays.
C11_ReportMatchesDisplayedTransaction ==
    DisplaysReport =>
        LET txn == Val(transactionDetail.transaction)
            for == Val(transactionDetail.reportFor)
        IN  /\ IsSome(txn.risk_score)
            /\ IsSome(txn.risk_level)
            /\ for.id = txn.id
            /\ for.risk_score = Val(txn.risk_score)
            /\ for.risk_level = Val(txn.risk_level)

\* the generateReport calls among the requests q
ReportRequests(q) == { i \in 1..Len(q) : q[i].op = "generateReport" }

\* C12: a step issues a compliance-report request only when it is the step
\* in which the page's getById resolved with a transaction that has both
\* risk_score and risk_level (a score of 0 included), every such step issues
\* one, and the request carries that transaction's id, risk_score and
\* risk_level.
C12_ReportRequestedForFetchedRiskFields ==
    [][LET issued == Cardinality(ReportRequests(inflight'))
                         > Cardinality(ReportRequests(inflight))
           fetched == /\ IsSome(delivered')
                      /\ Val(delivered').request.op = "getById"
                      /\ Val(delivered').result.settled = "fulfilled"
           txn == Val(Val(delivered').result.value)
       IN  /\ issued =>
                 /\ fetched
                 /\ IsSome(txn.risk_score) /\ IsSome(txn.risk_level)
                 /\ inflight'[Len(inflight')] =
                        Request("generateReport",
                                [id |-> txn.id,
                                 risk_score |-> Val(txn.risk_score),
                                 risk_level |-> Val(txn.risk_level)])
           /\ (fetched /\ IsSome(txn.risk_score) /\ IsSome(txn.risk_level))
                 => issued]_vars

\* a transaction with score 0 has just been fetched and its report is
\* requested with risk_score 0
C12_Witness ==
    /\ IsSome(delivered)
    /\ Val(delivered).request.op = "getById"
    /\ Val(delivered).result.settled = "fulfilled"
    /\ Val(Val(delivered).result.value).risk_score = Some(0)
    /\ \E i \in ReportRequests(inflight) :
           /\ inflight[i].arg.risk_score = 0
           /\ inflight[i].arg.id = Val(Val(delivered).result.value).id

\* the re-reads of handleReanalyze among the requests q
Rereads(q) == { i \in 1..Len(q) : q[i].op = "reread" }

\* C13: the re-read of a re-analysis is requested only in the step in which
\* its analyze call resolved, and when the re-read resolves on the mounted
\* page the displayed transaction is the answer, which is the record the
\* store holds for that id at that moment (risk fields overwritten by the
\* analysis included).
C13_ReanalysisShowsRereadRecord ==
    [][LET settled == IsSome(delivered')
           d == Val(delivered')
       IN  /\ Cardinality(Rereads(inflight')) > Cardinality(Rereads(inflight))
                 => /\ settled
                    /\ d.request.op = "analyze"
                    /\ d.result.settled = "fulfilled"
           /\ (/\ settled
               /\ d.request.op = "reread"
               /\ d.result.settled = "fulfilled"
               /\ DetailMounted)
                 => /\ transactionDetail'.transaction = d.result.value
                    /\ Val(transactionDetail'.transaction)
                           \in Lookup(store', d.request.arg.id)]_vars

\* a re-analysis has just succeeded on the page of TXN-1, which was stored
\* with score 0 and is now displayed with the score of the analysis
C13_Witness ==
    /\ IsSome(delivered)
    /\ Val(delivered).request.op = "reread"
    /\ Val(delivered).result.settled = "fulfilled"
    /\ DetailMounted
    /\ IsSome(transactionDetail.transaction)
    /\ Val(transactionDetail.transaction).id = "TXN-1"
    /\ Val(transactionDetail.transaction).risk_score = Some(95)
    /\ IsSome(transactionDetail.riskResponse)
    /\ Val(transactionDetail.riskResponse).risk_score = 95

\* C14: when the analyze call or the re-read of a re-analysis fails on the
\* mounted page, an error is notified and the displayed transaction and
\* riskResponse are the ones the page had when the re-analysis started.
C14_FailedReanalysisHasNoEffect ==
    (/\ IsSome(delivered)
     /\ Val(delivered).request.op \in {"analyze", "reread"}
     /\ Val(delivered).result.settled = "rejected"
     /\ DetailMounted)
        => /\ \E k \in 1..Len(toasts) :
                  toasts[k] = ErrorToast(<<"Failed to re-analyze transaction">>)
           /\ transactionDetail.transaction
                  = Val(delivered).request.before.transaction
           /\ transactionDetail.riskResponse
                  = Val(delivered).request.before.riskResponse

\* the full transaction attribute set
FullAttributeSet ==
    { "user_id", "amount", "currency", "transaction_type", "description",
      "sender_account", "recipient_account", "country", "merchant_type",
      "device_risk_score" }

\* C15: every analyze request sent for a re-analysis carries each attribute
\* of the full attribute set, with the value the displayed transaction had
\* when the re-analysis started.
C15_AnalyzeCarriesFullAttributeSet ==
    \A i \in 1..Len(inflight) :
        inflight[i].op = "analyze" =>
            /\ FullAttributeSet \subseteq DOMAIN inflight[i].arg
            /\ \A f \in FullAttributeSet :
                   inflight[i].arg[f] = Val(inflight[i].before.transaction)[f]

\* C16: a step of Approve or Flag (its start, or its timer firing) issues no
\* request, leaves the store and the displayed transaction, riskResponse and
\* complianceReport unchanged, and when its timer fires on the mounted page
\* actionLoading is null again; on the mounted page actionLoading is
\* 'approve' or 'flag' only while such a timer is pending.
C16_ApproveAndFlagChangeNothing ==
    [][LET td == transactionDetail
           starts == td.actionLoading = None
                         /\ td'.actionLoading \in {Some("approve"), Some("flag")}
           finishes == Len(timers') < Len(timers)
       IN  /\ (starts \/ finishes) =>
                 /\ inflight' = inflight
                 /\ store' = store
                 /\ td'.transaction = td.transaction
                 /\ td'.riskResponse = td.riskResponse
                 /\ td'.complianceReport = td.complianceReport
           /\ (finishes /\ DetailMounted) => td'.actionLoading = None
           /\ (DetailMounted' /\ td'.actionLoading \in {Some("approve"), Some("flag")})
                 => timers' = <<Val(td'.actionLoading)>>]_vars

\* Approve has just finished on a page that displays a transaction and its
\* report
C16_Witness ==
    /\ toasts = <<SuccessToast(<<"Transaction approved and funds released.">>)>>
    /\ DetailMounted
    /\ transactionDetail.actionLoading = None
    /\ IsSome(transactionDetail.transaction)
    /\ IsSome(transactionDetail.complianceReport)

-----------------------------------------------------------------------------
(* Properties of the Transactions page's delete *)

DeleteSettled == IsSome(delivered') /\ Val(delivered').request.op = "delete"

\* C17: a delete is in flight only after confirm() answered yes; the step in
\* which a delete resolves issues one more list fetch; the step in which a
\* delete is rejected notifies the error, issues no list fetch and leaves the
\* displayed list as it was
C17_DeleteFromList ==
    /\ [](\A i \in 1..Len(inflight) :
              inflight[i].op = "delete" => inflight[i].confirm)
    /\ [][DeleteSettled =>
             IF Val(delivered').result.settled = "fulfilled"
             THEN Len(ListRequests(inflight')) = Len(ListRequests(inflight)) + 1
             ELSE /\ \E k \in 1..Len(toasts') :
                         toasts'[k] = ErrorToast(<<"Failed to delete transaction">>)
                  /\ ListRequests(inflight') = ListRequests(inflight)
                  /\ transactionsPage'.transactions =
                         transactionsPage.transactions]_vars

\* a delete of a transaction that is no longer stored was rejected with
\* NotFound while the list still shows it
C17_Witness ==
    /\ IsSome(delivered)
    /\ Val(delivered).request.op = "delete"
    /\ Val(delivered).outcome = Rejected(NotFound)
    /\ TransactionsMounted
    /\ \E k \in 1..Len(transactionsPage.transactions) :
           transactionsPage.transactions[k].id = Val(delivered).request.arg.id

\* a delete resolved and the list was fetched again
C17_Refetched ==
    /\ IsSome(delivered)
    /\ Val(delivered).request.op = "delete"
    /\ Val(delivered).result.settled = "fulfilled"

-----------------------------------------------------------------------------
(* Properties of the busy flags *)

\* the busy flags of the page on screen
TransactionsLoading == TransactionsMounted /\ transactionsPage.loading

DashboardLoading == DashboardMounted /\ dashboard.loading

DashboardRefreshing == DashboardMounted /\ dashboard.refreshing

DetailLoading == DetailMounted /\ transactionDetail.loading

DetailActionLoading == DetailMounted /\ transactionDetail.actionLoading # None

ComplianceLoading == ComplianceMounted /\ compliance.loading

ComplianceSearching == ComplianceMounted /\ compliance.searching

ComplianceGenerating == ComplianceMounted /\ compliance.generating

BulkUploading == BulkMounted /\ bulkReports.uploading

BulkDownloading == BulkMounted /\ bulkReports.downloading

AnyBusy ==
    \/ TransactionsLoading
    \/ DashboardLoading \/ DashboardRefreshing
    \/ DetailLoading \/ DetailActionLoading
    \/ ComplianceLoading \/ ComplianceSearching \/ ComplianceGenerating
    \/ BulkUploading \/ BulkDownloading

\* C18: when effects run, requests settle and timers fire, every busy flag of
\* the page on screen is cleared again and again: no flag stays set forever
C18_BusyFlagsAreCleared ==
    /\ []<>~TransactionsLoading
    /\ []<>~DashboardLoading
    /\ []<>~DashboardRefreshing
    /\ []<>~DetailLoading
    /\ []<>~DetailActionLoading
    /\ []<>~ComplianceLoading
    /\ []<>~ComplianceSearching
    /\ []<>~ComplianceGenerating
    /\ []<>~BulkUploading
    /\ []<>~BulkDownloading

\* a request of a page has just failed and no flag of that page is set
C18_Witness ==
    /\ IsSome(delivered)
    /\ Val(delivered).result.settled = "rejected"
    /\ ~AnyBusy

-----------------------------------------------------------------------------
(* Properties of the risk score cell *)

RenderedCells ==
    { Val(c) : c \in { c \in {scoreCell.transactions, scoreCell.dashboard} :
                          IsSome(c) } }

\* C19: in both tables the risk score is red iff score >= 80, amber iff
\* 50 <= score < 80 and green otherwise, an absent score counting as 0
C19_CellFollowsBands ==
    LET score == IF IsSome(scoreCell.risk_score)
                 THEN Val(scoreCell.risk_score) ELSE 0
    IN  \A class \in RenderedCells :
            /\ class = "text-red-600 font-bold" <=> score >= 80
            /\ class = "text-amber-600 font-bold"
                   <=> (50 <= score /\ score < 80)
            /\ class = "text-green-600 font-medium" <=> score < 50

-----------------------------------------------------------------------------
(* Properties of the routes *)

DashboardEntry == CHOOSE nav \in navItems : nav.label = "Dashboard"

\* C20: the root path shows the Dashboard page, a click on the navigation
\* entry labelled Dashboard leads to the Dashboard page, and entering a path
\* no route matches leads to that same home page
C20_DashboardIsHome ==
    /\ [](location = <<"/">> => Page = "Dashboard")
    /\ [][navLink(DashboardEntry) => Page' = "Dashboard"]_vars
    /\ [][\A url \in Urls :
              (RouteElement(url) = "Navigate" /\ enterUrl(url))
                  => (location' = <<"/">> /\ Page' = "Dashboard")]_vars

-----------------------------------------------------------------------------
(* Properties of getDashboardStats and of the Dashboard page *)

\* C21: no getDashboardStats promise is ever rejected; in the step in which
\* its list request fails it resolves with the default stats (counts 0,
\* pendingReviews 0, complianceRate 100), which are the stats of an empty
\* list: they are held by the promise while getAll(5, 0) is pending and are
\* displayed when getAll(5, 0) had resolved
C21_StatsNeverReject ==
    /\ [](\A f \in 1..Len(fetches) :
              fetches[f].dashboardStats.state # "rejected")
    /\ [][\A f \in 1..Len(fetches) : \A error \in Failures :
              statsDefaulted(f, error) =>
                  /\ DefaultStats = StatsOf(<<>>)
                  /\ fetches[f].txns.state = "pending"
                         => fetches'[f].dashboardStats = Resolved(DefaultStats)
                  /\ fetches[f].txns.state = "fulfilled"
                         => /\ dashboard'.stats = DefaultStats
                            /\ ~dashboard'.loading]_vars

\* the list request of getDashboardStats has just failed in front of a store
\* that is not empty, and the promise holds the default stats
C21_Witness ==
    /\ toasts # <<>>
    /\ store # <<>>
    /\ \E f \in 1..Len(fetches) :
           /\ fetches[f].txns.state = "pending"
           /\ fetches[f].dashboardStats = Resolved(DefaultStats)

-----------------------------------------------------------------------------
(* Properties of the form in the modal *)

CreatesInFlight == SelectSeq(inflight, LAMBDA r : r.op = "create")

\* C22: while a create started from the form is in flight the form's loading
\* flag is set, which disables the submit button, and so at most one create
\* is in flight
C22_OneCreateInFlight ==
    /\ CreatesInFlight # <<>> => transactionForm.loading
    /\ Len(CreatesInFlight) <= 1

-----------------------------------------------------------------------------
(* Properties of BulkReports *)

\* C23: a result on display is the summary of the file that is selected: the
\* result is non-null only if a file is selected and the result was produced
\* by uploading that file
C23_ResultOfSelectedFile ==
    IsSome(bulkReports.result) =>
        /\ IsSome(bulkReports.file)
        /\ Val(bulkReports.result).filename = Val(bulkReports.file).name

-----------------------------------------------------------------------------
(* Properties of overlapping requests on the Transactions page *)

\* C24: while any list fetch of the mounted Transactions page is in flight
\* its loading flag is true, so that the list on display once loading is
\* false is the answer of the fetch issued last
C24_LoadingWhileFetching ==
    (/\ TransactionsMounted
     /\ \E i \in 1..Len(inflight) : inflight[i].op = "getAll")
        => transactionsPage.loading

-----------------------------------------------------------------------------
(* Properties of overlapping requests on TransactionDetail *)

\* C25: once the effect has run and no getById is in flight, the transaction
\* on display is the one of the current route id, which is the id Delete and
\* the re-read of Re-analyze use
C25_DisplayedIsRouted ==
    (/\ DetailMounted
     /\ ~transactionDetail.effectDue
     /\ \A i \in 1..Len(inflight) : inflight[i].op # "getById"
     /\ IsSome(transactionDetail.transaction))
        => Val(transactionDetail.transaction).id = transactionDetail.id

\* C26: on the mounted TransactionDetail no two of approve, flag, delete and
\* re-analyze are in progress at the same time
C26_OneActionInProgress ==
    LET InProgress ==
            [approve   |-> \E k \in 1..Len(timers) : timers[k] = "approve",
             flag      |-> \E k \in 1..Len(timers) : timers[k] = "flag",
             delete    |-> \E i \in 1..Len(inflight) :
                               inflight[i] = Request("delete", inflight[i].arg),
             reanalyze |-> \E i \in 1..Len(inflight) :
                               inflight[i].op \in {"analyze", "reread"}]
    IN  DetailMounted =>
            Cardinality({ a \in DOMAIN InProgress : InProgress[a] }) <= 1

-----------------------------------------------------------------------------
(* Properties of the Dashboard's figures *)

\* C28: once every load or refresh of the Dashboard has settled, the total
\* on the stat cards is at least the number of recent transactions listed
C28_TotalCoversRecent ==
    (fetches = <<>> /\ ~dashboard.loading)
        => dashboard.stats.totalTransactions >= Len(dashboard.transactions)

\* C29: the stats getDashboardStats computes from a list partition it: the
\* three counts add up to totalTransactions, which is the length of the list,
\* pendingReviews is high plus medium, and complianceRate is within 0..100
C29_StatsPartitionTotal ==
    IsSome(statsResolved) =>
        LET stats == Val(statsResolved).stats
        IN  /\ stats.totalTransactions = Len(Val(statsResolved).transactions)
            /\ stats.highRiskCount + stats.mediumRiskCount + stats.lowRiskCount
                   = stats.totalTransactions
            /\ stats.pendingReviews
                   = stats.highRiskCount + stats.mediumRiskCount
            /\ stats.highRiskCount >= 0 /\ stats.mediumRiskCount >= 0
            /\ stats.lowRiskCount >= 0
            /\ stats.complianceRate >= 0 /\ stats.complianceRate <= 100

\* stats computed from a list of two, one of them without a risk level and
\* one at high or critical risk
C29_Witness ==
    /\ IsSome(statsResolved)
    /\ Len(Val(statsResolved).transactions) = 2
    /\ \E k \in 1..2 : ~IsSome(Val(statsResolved).transactions[k].risk_level)
    /\ Val(statsResolved).stats.highRiskCount = 1
    /\ Val(statsResolved).stats.lowRiskCount = 1

=============================================================================
